---- MODULE Spec2Model ----
(***************************************************************************)
(* A model of mllm's Tensor (src/src/Tensor.hpp): shape and layout-tag     *)
(* metadata, the master/child aliasing of host_ptr_, aggregated tensors,   *)
(* and the release of buffers through the backend.                         *)
(*                                                                         *)
(* Tensors are numbered 1..NT; 0 is the null Tensor*.  Buffers obtained    *)
(* from the backend are numbered 1..MaxBuf in the order they are obtained; *)
(* 0 is the null host_ptr_.  C++ vectors are sequences, so the C++ index i *)
(* is the TLA+ index i+1.                                                  *)
(***************************************************************************)
EXTENDS Integers, Sequences, FiniteSets, TLC

VARIABLES
    tensors,   \* [1..NT -> Tensor record]: the fields of every Tensor object
    nextBuf,   \* the number the backend gives the next buffer it hands out
    relCount,  \* [1..MaxBuf -> Nat]: how often backend_->free got each buffer
    relLog,    \* history: who released what, and in which role
    allocBy,   \* history: [1..MaxBuf -> tensor that obtained the buffer, or 0]
    mem,       \* [1..MaxBuf -> Seq]: the elements of each buffer
    last       \* the last call made and what it returned

vars == <<tensors, nextBuf, relCount, relLog, allocBy, mem, last>>

--------------------------------------------------------------------------
(* Bounds of the model *)

NT == 3          \* Tensor objects
MaxBuf == 2      \* buffers the backend hands out in one run
MaxExt == 2      \* largest axis extent drawn for a shape
MaxOff == 2      \* largest per-axis shape_offset drawn
MaxOps == 5      \* calls made in one run of the ownership specification
MaxKids == 3     \* entries of the child list of the tensor that is rebound

TensorIds == 1..NT
BufIds == 1..MaxBuf

(* The value of an int member no constructor initialises (count_). *)
Uninit == -1
(* The content of a buffer element that was never written. *)
Unwritten == "U"

Tags4 == {"BSHD", "BHDS", "SBHD"}
Tags5 == {"BCTHW", "BTHWC"}
Chls == {"BATCH", "HEAD", "SEQUENCE", "DIMENSION", "CHANNLE", "THW", "D_HD", "HD"}

--------------------------------------------------------------------------
(* C++ integer arithmetic: / truncates towards zero, % takes the sign of   *)
(* the dividend.  Integers and % of TLA+ floor instead.                    *)

CDiv(a, b) ==
    IF (a >= 0) = (b > 0) THEN (IF a >= 0 THEN a ELSE -a) \div (IF b > 0 THEN b ELSE -b)
    ELSE -((IF a >= 0 THEN a ELSE -a) \div (IF b > 0 THEN b ELSE -b))

CMod(a, b) == a - b * CDiv(a, b)

INT_MAX == 2147483647

(* int is 32 bits wide: a * b as a two's-complement build computes it,     *)
(* from 16-bit halves so that no intermediate value leaves the range.      *)
IntMul(a, b) ==
    LET al == a % 65536
        ah == a \div 65536
        bl == b % 65536
        bh == b \div 65536
        p0 == al * (bl % 256)
        p1 == al * (bl \div 256)
        low == p0 + (p1 % 256) * 256
        carry == (low \div 65536) + (p1 \div 256)
        lo16 == low % 65536
        hi16 == (carry + ((ah * bl) % 65536) + ((al * bh) % 65536)) % 65536
    IN  IF hi16 >= 32768 THEN (hi16 - 65536) * 65536 + lo16
        ELSE hi16 * 65536 + lo16

--------------------------------------------------------------------------
(* Construction *)

(* Tensor(Backend *bn): host_ptr_(), capacity_(0), dtype_(MLLM_TYPE_F32);  *)
(* the other members take their in-class initialisers; count_ has none.    *)
NewTensor ==
    [ alive |-> TRUE,
      dtype_ |-> "F32",
      ctype_ |-> "BSHD",
      host_ptr_ |-> 0,
      shape_ |-> <<>>,
      capacity_ |-> 0,
      count_ |-> Uninit,
      allocated_ |-> 0,
      transed_ |-> FALSE,
      shape_offset_ |-> <<>>,
      shape_master_ |-> <<>>,
      master_tensor_ |-> 0,
      child_tensors_ |-> <<>>,
      undiffusion_ |-> FALSE,
      aggregated_ |-> FALSE,
      aggregated_tensors_ |-> <<>>,
      aggregated_dim_ |-> "HEAD",
      aggregated_dims_ |-> <<>> ]

--------------------------------------------------------------------------
(* Shape accessors *)

numAxes(t) == Len(t.shape_)

canonicalAxisIndex(t, axis_index) ==
    IF axis_index < 0 THEN axis_index + numAxes(t) ELSE axis_index

shape(t, index) == t.shape_[canonicalAxisIndex(t, index) + 1]

legacyShape(t, index) ==
    IF index >= numAxes(t) \/ index < -numAxes(t) THEN 1 ELSE shape(t, index)

batch(t) == IF t.ctype_ = "SBHD" THEN legacyShape(t, 1) ELSE legacyShape(t, 0)

head(t) ==
    CASE t.ctype_ = "BSHD" -> legacyShape(t, 2)
      [] t.ctype_ = "BHDS" -> legacyShape(t, 1)
      [] t.ctype_ = "SBHD" -> legacyShape(t, 2)
      [] OTHER -> -1

sequence(t) ==
    CASE t.ctype_ = "BSHD" -> legacyShape(t, 1)
      [] t.ctype_ = "BHDS" -> legacyShape(t, 3)
      [] t.ctype_ = "SBHD" -> legacyShape(t, 0)
      [] OTHER -> -1

dimension(t) ==
    CASE t.ctype_ = "BSHD" -> legacyShape(t, 3)
      [] t.ctype_ = "BHDS" -> legacyShape(t, 2)
      [] t.ctype_ = "SBHD" -> legacyShape(t, 3)
      [] OTHER -> -1

channel(t) ==
    CASE t.ctype_ = "BCTHW" -> legacyShape(t, 1)
      [] t.ctype_ = "BTHWC" -> legacyShape(t, 4)
      [] OTHER -> -1

time(t) ==
    CASE t.ctype_ = "BCTHW" -> legacyShape(t, 2)
      [] t.ctype_ = "BTHWC" -> legacyShape(t, 1)
      [] OTHER -> -1

height(t) ==
    CASE t.ctype_ = "BCTHW" -> legacyShape(t, 3)
      [] t.ctype_ = "BTHWC" -> legacyShape(t, 2)
      [] OTHER -> -1

width(t) ==
    CASE t.ctype_ = "BCTHW" -> legacyShape(t, 4)
      [] t.ctype_ = "BTHWC" -> legacyShape(t, 3)
      [] OTHER -> -1

--------------------------------------------------------------------------
(* offset(b, h, s, d): the element offset from host_ptr_ *)

(* The offset of a windowed child that adds the window's origin without   *)
(* reducing the sum modulo the master's extent.                            *)
offsetWindowedNoWrap(t, b, h, s, d) ==
    LET base_batch_ == t.shape_master_[1]
        base_head_ == t.shape_master_[2]
        base_sequence_ == t.shape_master_[3]
        base_dimension_ == t.shape_master_[4]
        b_ == b + t.shape_offset_[1]
        h_ == h + t.shape_offset_[2]
        s_ == s + t.shape_offset_[3]
        d_ == d + t.shape_offset_[4]
    IN  CASE t.ctype_ = "BSHD" ->
               ((b_ * base_sequence_ + s_) * base_head_ + h_) * base_dimension_ + d_
          [] t.ctype_ = "BHDS" ->
               ((b_ * base_head_ + h_) * base_dimension_ + d_) * base_sequence_ + s_
          [] t.ctype_ = "SBHD" ->
               ((s_ * base_batch_ + b_) * base_head_ + h_) * base_dimension_ + d_
          [] OTHER -> -1

(* The offset of a windowed child that nests the axes as BSHD does under   *)
(* every tag.                                                              *)
offsetWindowedOneTag(t, b, h, s, d) ==
    LET b_ == CMod(b + t.shape_offset_[1], t.shape_master_[1])
        h_ == CMod(h + t.shape_offset_[2], t.shape_master_[2])
        s_ == CMod(s + t.shape_offset_[3], t.shape_master_[3])
        d_ == CMod(d + t.shape_offset_[4], t.shape_master_[4])
    IN  ((b_ * t.shape_master_[3] + s_) * t.shape_master_[2] + h_) * t.shape_master_[4] + d_

offsetWindowed(t, b, h, s, d) ==
    LET base_batch_ == t.shape_master_[1]
        base_head_ == t.shape_master_[2]
        base_sequence_ == t.shape_master_[3]
        base_dimension_ == t.shape_master_[4]
        b_ == CMod(b + t.shape_offset_[1], base_batch_)
        h_ == CMod(h + t.shape_offset_[2], base_head_)
        s_ == CMod(s + t.shape_offset_[3], base_sequence_)
        d_ == CMod(d + t.shape_offset_[4], base_dimension_)
    IN  CASE t.ctype_ = "BSHD" ->
               ((b_ * base_sequence_ + s_) * base_head_ + h_) * base_dimension_ + d_
          [] t.ctype_ = "BHDS" ->
               ((b_ * base_head_ + h_) * base_dimension_ + d_) * base_sequence_ + s_
          [] t.ctype_ = "SBHD" ->
               ((s_ * base_batch_ + b_) * base_head_ + h_) * base_dimension_ + d_
          [] OTHER -> -1

(* The offset of a tensor without a window that multiplies by the extent   *)
(* of the third stored axis where the fourth is due.                       *)
offsetPlainThirdAxis(t, b, h, s, d) ==
    CASE t.ctype_ = "BSHD" ->
           ((b * t.shape_[2] + s) * t.shape_[3] + h) * t.shape_[3] + d
      [] t.ctype_ = "BHDS" ->
           ((b * t.shape_[2] + h) * t.shape_[3] + d) * t.shape_[3] + s
      [] t.ctype_ = "SBHD" ->
           ((s * t.shape_[2] + b) * t.shape_[3] + h) * t.shape_[3] + d
      [] OTHER -> -1

offsetPlain(t, b, h, s, d) ==
    CASE t.ctype_ = "BSHD" ->
           ((b * t.shape_[2] + s) * t.shape_[3] + h) * t.shape_[4] + d
      [] t.ctype_ = "BHDS" ->
           ((b * t.shape_[2] + h) * t.shape_[3] + d) * t.shape_[4] + s
      [] t.ctype_ = "SBHD" ->
           ((s * t.shape_[2] + b) * t.shape_[3] + h) * t.shape_[4] + d
      [] OTHER -> -1

offset(t, b, h, s, d) ==
    IF Len(t.shape_offset_) = 4 /\ Len(t.shape_master_) = 4
    THEN offsetWindowed(t, b, h, s, d)
    ELSE offsetPlain(t, b, h, s, d)

--------------------------------------------------------------------------
(* reshape *)

(* The loop of reshape(const vector<int>&) from axis i on, count being the *)
(* running product: the final count_, or -1 when an assert fails.          *)
(* The loop of reshape without the assert on INT_MAX / count_. *)
RECURSIVE reshapeCountNoLimit(_, _, _)
reshapeCountNoLimit(shp, i, count) ==
    IF i > Len(shp) THEN count
    ELSE IF shp[i] < 0 THEN -1
    ELSE reshapeCountNoLimit(shp, i + 1, IntMul(count, shp[i]))

RECURSIVE reshapeCount(_, _, _)
reshapeCount(shp, i, count) ==
    IF i > Len(shp) THEN count
    ELSE IF shp[i] < 0 THEN -1
    ELSE IF count # 0 /\ shp[i] > CDiv(INT_MAX, count) THEN -1
    ELSE reshapeCount(shp, i + 1, IntMul(count, shp[i]))

(* reshape that never raises capacity_. *)
reshapeVecKeepsCapacity(t, shp) ==
    LET c == reshapeCount(shp, 1, 1)
    IN  IF Len(shp) > 32 \/ c < 0
        THEN [fatal |-> TRUE, t |-> t, ret |-> FALSE]
        ELSE [fatal |-> FALSE,
              t |-> [t EXCEPT !.count_ = c, !.shape_ = shp],
              ret |-> c > t.capacity_]

(* reshape(const vector<int>&): fatal when an assert fails; otherwise the  *)
(* tensor afterwards and the value returned.                               *)
reshapeVec(t, shp) ==
    LET c == reshapeCount(shp, 1, 1)
    IN  IF Len(shp) > 32 \/ c < 0
        THEN [fatal |-> TRUE, t |-> t, ret |-> FALSE]
        ELSE IF c > t.capacity_
        THEN [fatal |-> FALSE,
              t |-> [t EXCEPT !.count_ = c, !.shape_ = shp, !.capacity_ = c],
              ret |-> TRUE]
        ELSE [fatal |-> FALSE,
              t |-> [t EXCEPT !.count_ = c, !.shape_ = shp],
              ret |-> FALSE]

(* The physical order in which a layout tag nests the four logical axes.   *)
physicalShape(ctype, b, h, s, d) ==
    CASE ctype = "BSHD" -> <<b, s, h, d>>
      [] ctype = "BHDS" -> <<b, h, d, s>>
      [] ctype = "SBHD" -> <<s, b, h, d>>
      [] OTHER -> <<b, h, s, d>>

(* reshape(batch, head, sequence, dimension): the extents are stored in    *)
(* the physical order of the current tag.                                  *)
reshape4(t, b, h, s, d) == reshapeVec(t, physicalShape(t.ctype_, b, h, s, d))

(* reshape(batch, channel, time, height, width) *)
reshape5(t, b, c, tm, h, w) ==
    reshapeVec(t, IF t.ctype_ = "BTHWC" THEN <<b, tm, h, w, c>> ELSE <<b, c, tm, h, w>>)

--------------------------------------------------------------------------
(* transShape *)

(* transShape that hands sequence and dimension to reshape in each        *)
(* other's place.                                                          *)
transShapeSwapped(t, dim_a, dim_b, undiffusion) ==
    IF dim_a = "SEQUENCE" /\ dim_b = "DIMENSION" /\ t.ctype_ = "BSHD"
    THEN LET r == reshape4([t EXCEPT !.ctype_ = "BHDS"],
                           batch(t), head(t), dimension(t), sequence(t))
         IN  [fatal |-> r.fatal,
              t |-> [r.t EXCEPT !.transed_ = TRUE, !.undiffusion_ = undiffusion]]
    ELSE [fatal |-> FALSE, t |-> t]

(* transShape without the test of ctype() in its first branch. *)
transShapeAnyTag(t, dim_a, dim_b, undiffusion) ==
    IF dim_a = "SEQUENCE" /\ dim_b = "DIMENSION"
    THEN LET r == reshape4([t EXCEPT !.ctype_ = "BHDS"],
                           batch(t), head(t), sequence(t), dimension(t))
         IN  [fatal |-> r.fatal,
              t |-> [r.t EXCEPT !.transed_ = TRUE, !.undiffusion_ = undiffusion]]
    ELSE [fatal |-> FALSE, t |-> t]

transShape(t, dim_a, dim_b, undiffusion) ==
    IF dim_a = "SEQUENCE" /\ dim_b = "DIMENSION" /\ t.ctype_ = "BSHD"
    THEN LET r == reshape4([t EXCEPT !.ctype_ = "BHDS"],
                           batch(t), head(t), sequence(t), dimension(t))
         IN  [fatal |-> r.fatal,
              t |-> [r.t EXCEPT !.transed_ = TRUE, !.undiffusion_ = undiffusion]]
    ELSE IF dim_a = "THW" /\ dim_b = "CHANNLE" /\ t.ctype_ = "BCTHW"
    THEN LET r == reshape5([t EXCEPT !.ctype_ = "BTHWC"],
                           batch(t), channel(t), time(t), height(t), width(t))
         IN  [fatal |-> r.fatal,
              t |-> [r.t EXCEPT !.transed_ = TRUE, !.undiffusion_ = undiffusion]]
    ELSE IF dim_a = "BATCH" /\ dim_b = "SEQUENCE" /\ t.ctype_ = "BSHD"
    THEN LET r == reshape4([t EXCEPT !.ctype_ = "SBHD"],
                           batch(t), head(t), sequence(t), dimension(t))
         IN  [fatal |-> r.fatal,
              t |-> [r.t EXCEPT !.transed_ = TRUE, !.undiffusion_ = undiffusion]]
    ELSE [fatal |-> FALSE, t |-> t]

--------------------------------------------------------------------------
(* free() and ~Tensor() *)

(* free() without its test of masterTensor(). *)
freeReleasesNoMasterTest(t) ==
    ~t.aggregated_ /\ t.host_ptr_ # 0

(* The condition under which free() hands host_ptr_ to backend_->free.     *)
freeReleases(t) ==
    ~t.aggregated_ /\ t.host_ptr_ # 0 /\ t.master_tensor_ = 0

(* The tensor after free(). *)
freeTensor(t) ==
    IF freeReleases(t) THEN [t EXCEPT !.host_ptr_ = 0, !.allocated_ = 0] ELSE t

(* ~Tensor() without its test of masterTensor(). *)
dtorReleasesNoMasterTest(t) ==
    t.host_ptr_ # 0 /\ ~t.aggregated_

(* The condition under which ~Tensor() hands host_ptr_ to backend_->free.  *)
dtorReleases(t) ==
    t.host_ptr_ # 0 /\ t.master_tensor_ = 0 /\ ~t.aggregated_

(* The object after ~Tensor(): the body nulls host_ptr_ when it released   *)
(* it, and the members' destructors empty the vectors.  The record keeps   *)
(* the role and the pointer the tensor died with.                          *)
dtorTensor(t) ==
    [NewTensor EXCEPT !.alive = FALSE,
                      !.host_ptr_ = IF dtorReleases(t) THEN 0 ELSE t.host_ptr_,
                      !.master_tensor_ = t.master_tensor_,
                      !.aggregated_ = t.aggregated_]

--------------------------------------------------------------------------
(* deepCopyFrom *)

MinOf(S) == CHOOSE x \in S : \A y \in S : x <= y

(* std::remove(begin, end, value) on the first size slots of the array m,  *)
(* after its first match: i scans, result is the slot written next.  value *)
(* is a reference to slot p of the same array, so it is read again at      *)
(* every comparison.                                                       *)
RECURSIVE removeShift(_, _, _, _, _)
removeShift(m, size, p, i, result) ==
    IF i > size THEN [mem |-> m, size |-> result - 1]
    ELSE IF m[i] # m[p]
    THEN removeShift([m EXCEPT ![result] = m[i]], size, p, i + 1, result + 1)
    ELSE removeShift(m, size, p, i + 1, result)

(* child_tensors_.erase(std::remove(begin, end, child_tensor), end), with  *)
(* child_tensor the reference to slot p that the range-for holds.  m is    *)
(* the vector's array, of which the first size slots are the vector; the   *)
(* slots behind them keep what was last stored there.                      *)
removeErase(m, size, p) ==
    LET hits == {j \in 1..size : m[j] = m[p]}
    IN  IF hits = {} THEN [mem |-> m, size |-> size]
        ELSE removeShift(m, size, p, MinOf(hits) + 1, MinOf(hits))

(* shape_master_ as deepCopyFrom records it for a non-empty shape_offset.  *)
shapeMasterOf(me, src, head_rep) ==
    IF head(src) # head(me) /\ head(me) = 1 /\ head_rep = 1
    THEN <<batch(src), head(me), sequence(src), CDiv(dimension(src) * head(src), head(me))>>
    ELSE IF head(src) # head(me) /\ head(me) = 1 /\ head_rep > 1
    THEN <<batch(src), head(me), sequence(src), CDiv(dimension(src) * head(src), head_rep)>>
    ELSE <<batch(src), head(src), sequence(src), dimension(src)>>

(* The reconciliation in which the child adopts the master's tag whether   *)
(* it was transposed or not.                                               *)
reconcileTagsChildAdopts(ts, this, source) ==
    LET s1 == [ts EXCEPT ![this].master_tensor_ = source]
        me == s1[this]
        ms == s1[source]
    IN  IF me.ctype_ # "BCTHW" /\ me.ctype_ # "BTHWC" /\ me.ctype_ # ms.ctype_
           /\ me.undiffusion_ = FALSE
        THEN LET r == reshape4([me EXCEPT !.ctype_ = ms.ctype_],
                               batch(me), head(me), sequence(me), dimension(me))
             IN  [fatal |-> r.fatal, ts |-> [s1 EXCEPT ![this] = r.t]]
        ELSE [fatal |-> FALSE, ts |-> s1]

(* Lines 563-580: the master back-reference and the reconciliation of the  *)
(* layout tags.  ts is the state of all tensors.                           *)
reconcileTags(ts, this, source) ==
    LET s1 == [ts EXCEPT ![this].master_tensor_ = source]
        me == s1[this]
        ms == s1[source]
    IN  IF me.ctype_ # "BCTHW" /\ me.ctype_ # "BTHWC" /\ me.ctype_ # ms.ctype_
           /\ me.undiffusion_ = FALSE
        THEN IF me.transed_
             THEN LET r == reshape4([ms EXCEPT !.ctype_ = me.ctype_],
                                    batch(ms), head(ms), sequence(ms), dimension(ms))
                  IN  [fatal |-> r.fatal, ts |-> [s1 EXCEPT ![source] = r.t]]
             ELSE LET r == reshape4([me EXCEPT !.ctype_ = ms.ctype_],
                                    batch(me), head(me), sequence(me), dimension(me))
                  IN  [fatal |-> r.fatal, ts |-> [s1 EXCEPT ![this] = r.t]]
        ELSE [fatal |-> FALSE, ts |-> s1]

(* Lines 581-600: the fields copied from the master and the window.        *)
copyFields(ts, this, source, copyshape, shape_offset, head_rep) ==
    LET src == ts[source]
        m1 == [ts[this] EXCEPT !.host_ptr_ = src.host_ptr_,
                               !.capacity_ = src.capacity_,
                               !.count_ = src.count_,
                               !.shape_ = IF copyshape THEN src.shape_ ELSE @,
                               !.allocated_ = src.allocated_,
                               !.dtype_ = src.dtype_]
        m2 == IF shape_offset # <<>>
              THEN [m1 EXCEPT !.shape_offset_ = shape_offset,
                              !.shape_master_ = shapeMasterOf(m1, src, head_rep)]
              ELSE m1
    IN  [ts EXCEPT ![this] = m2]

RECURSIVE deepCopyFrom(_, _, _, _, _, _)
RECURSIVE rebindChildren(_, _, _, _, _, _, _, _, _)

(* Lines 601-608: the range-for over child_tensors_ that erases from the   *)
(* vector it walks.  The loop's end iterator is the one taken before the   *)
(* first erase, n slots from the start, so the walk visits slots 1..n of   *)
(* the array m whatever the vector's size has become.                      *)
rebindChildren(st, this, source, m, size, idx, n, shape_offset, head_rep) ==
    IF st.fatal THEN st
    ELSE IF idx > n
    THEN [fatal |-> FALSE,
          ts |-> [st.ts EXCEPT ![this].child_tensors_ = SubSeq(m, 1, size)]]
    ELSE LET st1 == deepCopyFrom(st.ts, m[idx], source, FALSE, shape_offset, head_rep)
             rm == removeErase(m, size, idx)
         IN  rebindChildren(st1, this, source, rm.mem, rm.size, idx + 1, n,
                            shape_offset, head_rep)

(* this->deepCopyFrom(source, copyshape, shape_offset, head_rep) on the    *)
(* state ts of all tensors: fatal when an assert of reshape fails, and     *)
(* otherwise the state of all tensors afterwards.                          *)
deepCopyFrom(ts, this, source, copyshape0, shape_offset, head_rep) ==
    LET copyshape == IF shape_offset # <<>> THEN FALSE ELSE copyshape0
        s2 == reconcileTags(ts, this, source)
    IN  IF s2.fatal THEN s2
        ELSE LET s3 == copyFields(s2.ts, this, source, copyshape, shape_offset, head_rep)
                 kids == s3[this].child_tensors_
                 s4 == rebindChildren([fatal |-> FALSE, ts |-> s3], this, source,
                                      kids, Len(kids), 1, Len(kids),
                                      shape_offset, head_rep)
             IN  IF s4.fatal THEN s4
                 ELSE [fatal |-> FALSE,
                       ts |-> [s4.ts EXCEPT ![source].child_tensors_ = Append(@, this)]]

(* The tensors reached from t through child_tensors_ lists, t included.    *)
RECURSIVE reachDown(_, _, _)
reachDown(ts, frontier, seen) ==
    IF frontier \subseteq seen THEN seen
    ELSE reachDown(ts,
                   UNION {{ts[x].child_tensors_[i] : i \in 1..Len(ts[x].child_tensors_)}
                          : x \in frontier},
                   seen \cup frontier)

descendants(ts, t) == reachDown(ts, {t}, {})

--------------------------------------------------------------------------
(* addTensors *)

RECURSIVE prefixSums(_, _, _)
prefixSums(exts, i, sum) ==
    IF i > Len(exts) THEN <<>>
    ELSE <<sum + exts[i]>> \o prefixSums(exts, i + 1, sum + exts[i])

SeqSum(q) == IF q = <<>> THEN 0 ELSE prefixSums(q, 1, 0)[Len(q)]

(* The asserts of addTensors without the one on the sum. *)
addTensorsOkNoSum(ts, this, tsq, dim) ==
    LET me == ts[this]
    IN  \A i \in 1..Len(tsq) :
            /\ batch(ts[tsq[i]]) = batch(me)
            /\ dim # "HEAD" => head(ts[tsq[i]]) = head(me)
            /\ dim # "SEQUENCE" => sequence(ts[tsq[i]]) = sequence(me)
            /\ dim # "DIMENSION" => dimension(ts[tsq[i]]) = dimension(me)

(* The asserts of addTensors(ts, dim) all pass. *)
addTensorsOk(ts, this, tsq, dim) ==
    LET me == ts[this]
    IN  CASE dim = "HEAD" ->
               /\ \A i \in 1..Len(tsq) :
                      /\ batch(ts[tsq[i]]) = batch(me)
                      /\ sequence(ts[tsq[i]]) = sequence(me)
                      /\ dimension(ts[tsq[i]]) = dimension(me)
               /\ SeqSum([i \in 1..Len(tsq) |-> head(ts[tsq[i]])]) = head(me)
          [] dim = "SEQUENCE" ->
               /\ \A i \in 1..Len(tsq) :
                      /\ batch(ts[tsq[i]]) = batch(me)
                      /\ head(ts[tsq[i]]) = head(me)
                      /\ dimension(ts[tsq[i]]) = dimension(me)
               /\ SeqSum([i \in 1..Len(tsq) |-> sequence(ts[tsq[i]])]) = sequence(me)
          [] dim = "DIMENSION" ->
               /\ \A i \in 1..Len(tsq) :
                      /\ batch(ts[tsq[i]]) = batch(me)
                      /\ head(ts[tsq[i]]) = head(me)
                      /\ sequence(ts[tsq[i]]) = sequence(me)
               /\ SeqSum([i \in 1..Len(tsq) |-> dimension(ts[tsq[i]])]) = dimension(me)
          [] OTHER -> TRUE

(* The tensor after addTensors(ts, dim) ran to its end. *)
addTensors(ts, this, tsq, dim) ==
    LET exts == CASE dim = "HEAD" -> [i \in 1..Len(tsq) |-> head(ts[tsq[i]])]
                  [] dim = "SEQUENCE" -> [i \in 1..Len(tsq) |-> sequence(ts[tsq[i]])]
                  [] dim = "DIMENSION" -> [i \in 1..Len(tsq) |-> dimension(ts[tsq[i]])]
                  [] OTHER -> <<>>
    IN  [ts[this] EXCEPT !.aggregated_ = TRUE,
                         !.aggregated_dim_ = dim,
                         !.aggregated_dims_ = prefixSums(exts, 1, 0),
                         !.aggregated_tensors_ = tsq]

--------------------------------------------------------------------------
(* checkDim, dataAt, setDataAt *)

(* aggregated_dims_[i], i a C++ index.  An index outside the vector reads  *)
(* memory that is not the vector's: any int, here oob.                     *)
dimsAt(t, i, oob) ==
    IF 0 <= i /\ i < Len(t.aggregated_dims_) THEN t.aggregated_dims_[i + 1] ELSE oob

(* The search loop of checkDim: the first a with x < aggregated_dims_[a],  *)
(* or -1.                                                                  *)
firstAbove(t, x) ==
    LET hits == {a \in 0..(Len(t.aggregated_dims_) - 1) : x < t.aggregated_dims_[a + 1]}
    IN  IF hits = {} THEN -1 ELSE MinOf(hits)

(* checkDim that unpacks the dimension index of both interleaved modes as  *)
(* mode HD packs it.                                                       *)
checkDimAllAsHD(ts, this, b, h, s, d, oob) ==
    LET me == ts[this]
        dim_size == dimension(ts[me.aggregated_tensors_[1]])
        head_size == head(ts[me.aggregated_tensors_[1]])
        id == CDiv(d, dim_size * head_size)
    IN  IF me.aggregated_ /\ me.aggregated_dim_ \in {"D_HD", "HD"}
        THEN [id |-> id, b |-> b,
              h |-> CDiv(d - id * (dim_size * head_size), dim_size), s |-> s,
              d |-> CMod(d - id * (dim_size * head_size), dim_size)]
        ELSE [id |-> -1, b |-> b, h |-> h, s |-> s, d |-> d]

(* checkDim(b, h, s, d): the value returned and the four indices as they   *)
(* are left.                                                               *)
checkDim(ts, this, b, h, s, d, oob) ==
    LET me == ts[this]
        dim == me.aggregated_dim_
    IN  IF ~me.aggregated_ THEN [id |-> -1, b |-> b, h |-> h, s |-> s, d |-> d]
        ELSE CASE dim = "HEAD" ->
                    LET id == firstAbove(me, h)
                    IN  [id |-> id, b |-> b, h |-> h - dimsAt(me, id - 1, oob), s |-> s, d |-> d]
               [] dim = "SEQUENCE" ->
                    LET id == firstAbove(me, s)
                    IN  [id |-> id, b |-> b, h |-> h, s |-> s - dimsAt(me, id - 1, oob), d |-> d]
               [] dim = "DIMENSION" ->
                    LET id == firstAbove(me, d)
                    IN  [id |-> id, b |-> b, h |-> h, s |-> s, d |-> d - dimsAt(me, id - 1, oob)]
               [] dim = "D_HD" ->
                    LET dim_size == dimension(ts[me.aggregated_tensors_[1]])
                        aggregated_size == Len(me.aggregated_tensors_)
                        h_ == CDiv(d, dim_size * aggregated_size)
                        d_m == CMod(d, dim_size * aggregated_size)
                    IN  [id |-> CDiv(d_m, dim_size), b |-> b, h |-> h_, s |-> s,
                         d |-> CMod(d_m, dim_size)]
               [] dim = "HD" ->
                    LET dim_size == dimension(ts[me.aggregated_tensors_[1]])
                        head_size == head(ts[me.aggregated_tensors_[1]])
                        id == CDiv(d, dim_size * head_size)
                    IN  [id |-> id, b |-> b,
                         h |-> CDiv(d - id * (dim_size * head_size), dim_size), s |-> s,
                         d |-> CMod(d - id * (dim_size * head_size), dim_size)]
               [] OTHER -> [id |-> -1, b |-> b, h |-> h, s |-> s, d |-> d]

(* Element off of buffer ptr is inside the buffer. *)
inBuffer(memv, ptr, off) ==
    ptr \in DOMAIN memv /\ 0 <= off /\ off < Len(memv[ptr])

(* The element at host_ptr_[off], or an indeterminate value when           *)
(* the read is outside every buffer.                                       *)
readCell(memv, ptr, off) ==
    IF inBuffer(memv, ptr, off) THEN memv[ptr][off + 1] ELSE Unwritten

(* dataAt<Dtype>(batch, head, sequence, dimension) *)
RECURSIVE dataAt(_, _, _, _, _, _, _, _)
dataAt(ts, memv, this, b, h, s, d, oob) ==
    IF ~ts[this].aggregated_
    THEN readCell(memv, ts[this].host_ptr_, offset(ts[this], b, h, s, d))
    ELSE LET r == checkDim(ts, this, b, h, s, d, oob)
         IN  dataAt(ts, memv, ts[this].aggregated_tensors_[r.id + 1], r.b, r.h, r.s, r.d, oob)

(* The buffer and element that setDataAt(batch, head, sequence, dimension, *)
(* value) writes.                                                          *)
RECURSIVE writeTarget(_, _, _, _, _, _, _)

(* A write that takes the sequence index for the dimension index and the  *)
(* dimension index for the sequence index.                                 *)
writeTargetSwapped(ts, this, b, h, s, d, oob) ==
    [ptr |-> ts[this].host_ptr_, off |-> offset(ts[this], b, h, d, s)]

writeTarget(ts, this, b, h, s, d, oob) ==
    IF ~ts[this].aggregated_
    THEN [ptr |-> ts[this].host_ptr_, off |-> offset(ts[this], b, h, s, d)]
    ELSE LET r == checkDim(ts, this, b, h, s, d, oob)
         IN  writeTarget(ts, ts[this].aggregated_tensors_[r.id + 1], r.b, r.h, r.s, r.d, oob)

(* The buffers after setDataAt(batch, head, sequence, dimension, value).   *)
setDataAt(ts, memv, this, b, h, s, d, value, oob) ==
    LET w == writeTarget(ts, this, b, h, s, d, oob)
    IN  [memv EXCEPT ![w.ptr][w.off + 1] = value]

--------------------------------------------------------------------------
(* alloc *)

(* alloc() leaves the tensor as it is: a child and an aggregate never      *)
(* allocate, and a buffer that holds count_ elements is reused.            *)
allocKeeps(t) ==
    \/ t.aggregated_
    \/ t.master_tensor_ # 0
    \/ (t.host_ptr_ # 0 /\ t.allocated_ >= t.count_)

--------------------------------------------------------------------------
(* The calls of the ownership specification.  Every call is made on a live *)
(* tensor; last.n counts the calls made so far.                            *)

Call(op, t, args, ret) ==
    [op |-> op, t |-> t, args |-> <<>>, ret |-> ret, n |-> last.n + 1, pre |-> <<>>]

More == last.n < MaxOps

(* backend_->free(host_ptr_) called by tensor t in call op *)
Released(t, op) ==
    /\ relCount' = [relCount EXCEPT ![tensors[t].host_ptr_] = @ + 1]
    /\ relLog' = relLog \cup {[buf |-> tensors[t].host_ptr_, by |-> t, op |-> op,
                               master |-> tensors[t].master_tensor_,
                               agg |-> tensors[t].aggregated_]}

(* The shapes and windows drawn by the ownership specification. *)
OwnShapes == {<<1, 1, MaxExt, 1>>}
OwnOffsets == {<<>>, <<0, 0, 1, 0>>}

Reshape(t, shp) ==
    /\ More
    /\ tensors[t].alive
    /\ LET r == reshape4(tensors[t], shp[1], shp[2], shp[3], shp[4])
       IN  /\ ~r.fatal
           /\ tensors' = [tensors EXCEPT ![t] = r.t]
           /\ last' = Call("reshape", t, <<>>, r.ret)
    /\ UNCHANGED <<nextBuf, relCount, relLog, allocBy, mem>>

TransShape(t, dim_a, dim_b, undiffusion) ==
    /\ More
    /\ tensors[t].alive
    /\ LET r == transShape(tensors[t], dim_a, dim_b, undiffusion)
       IN  /\ ~r.fatal
           /\ tensors' = [tensors EXCEPT ![t] = r.t]
           /\ last' = Call("transShape", t, <<>>, FALSE)
    /\ UNCHANGED <<nextBuf, relCount, relLog, allocBy, mem>>

(* alloc(): a plain tensor that was shaped obtains a buffer of count_      *)
(* elements from the backend, giving back the buffer it held.              *)
Alloc(t) ==
    /\ More
    /\ tensors[t].alive
    /\ tensors[t].count_ # Uninit
    /\ last' = Call("alloc", t, <<>>, FALSE)
    /\ IF allocKeeps(tensors[t])
       THEN UNCHANGED <<tensors, nextBuf, relCount, relLog, allocBy, mem>>
       ELSE /\ IF tensors[t].host_ptr_ # 0
               THEN Released(t, "alloc")
               ELSE UNCHANGED <<relCount, relLog>>
            /\ IF tensors[t].count_ > 0
               THEN /\ nextBuf <= MaxBuf
                    /\ tensors' = [tensors EXCEPT ![t].host_ptr_ = nextBuf,
                                                  ![t].allocated_ = tensors[t].count_]
                    /\ nextBuf' = nextBuf + 1
                    /\ allocBy' = [allocBy EXCEPT ![nextBuf] = t]
                    /\ mem' = [mem EXCEPT ![nextBuf] =
                                  [i \in 1..tensors[t].count_ |-> Unwritten]]
               ELSE /\ tensors' = [tensors EXCEPT ![t].host_ptr_ = 0,
                                                  ![t].allocated_ = tensors[t].count_]
                    /\ UNCHANGED <<nextBuf, allocBy, mem>>

Free(t) ==
    /\ More
    /\ tensors[t].alive
    /\ IF freeReleases(tensors[t])
       THEN Released(t, "free")
       ELSE UNCHANGED <<relCount, relLog>>
    /\ tensors' = [tensors EXCEPT ![t] = freeTensor(tensors[t])]
    /\ last' = Call("free", t, <<>>, FALSE)
    /\ UNCHANGED <<nextBuf, allocBy, mem>>

(* A tensor that a live aggregate holds in a shared_ptr is not destroyed.  *)
heldByAggregate(ts, t) ==
    \E a \in TensorIds :
        /\ ts[a].alive
        /\ \E i \in 1..Len(ts[a].aggregated_tensors_) : ts[a].aggregated_tensors_[i] = t

Destroy(t) ==
    /\ More
    /\ tensors[t].alive
    /\ ~heldByAggregate(tensors, t)
    /\ IF dtorReleases(tensors[t])
       THEN Released(t, "dtor")
       ELSE UNCHANGED <<relCount, relLog>>
    /\ tensors' = [tensors EXCEPT ![t] = dtorTensor(tensors[t])]
    /\ last' = Call("dtor", t, <<>>, FALSE)
    /\ UNCHANGED <<nextBuf, allocBy, mem>>

(* The caller binds a tensor neither to itself nor to a tensor reached     *)
(* through its own child lists (such a call does not return), and not      *)
(* while a destroyed tensor is still in those lists (the call would write  *)
(* to the destroyed object).                                               *)
DeepCopyFrom(t, source, copyshape, shape_offset, head_rep) ==
    /\ More
    /\ tensors[t].alive
    /\ tensors[source].alive
    /\ source \notin descendants(tensors, t)
    /\ \A x \in descendants(tensors, t) : tensors[x].alive
    /\ LET r == deepCopyFrom(tensors, t, source, copyshape, shape_offset, head_rep)
       IN  /\ ~r.fatal
           /\ tensors' = r.ts
           /\ last' = Call("deepCopyFrom", t, <<source>>, FALSE)
    /\ UNCHANGED <<nextBuf, relCount, relLog, allocBy, mem>>

AddTensors(t, tsq, dim) ==
    /\ More
    /\ tensors[t].alive
    /\ \A i \in 1..Len(tsq) : tensors[tsq[i]].alive /\ tsq[i] # t
    /\ addTensorsOk(tensors, t, tsq, dim)
    /\ tensors' = [tensors EXCEPT ![t] = addTensors(tensors, t, tsq, dim)]
    /\ last' = Call("addTensors", t, tsq, FALSE)
    /\ UNCHANGED <<nextBuf, relCount, relLog, allocBy, mem>>

NoCall == [op |-> "none", t |-> 0, args |-> <<>>, ret |-> FALSE, n |-> 0, pre |-> <<>>]

Init ==
    /\ tensors = [t \in TensorIds |-> NewTensor]
    /\ nextBuf = 1
    /\ relCount = [b \in BufIds |-> 0]
    /\ relLog = {}
    /\ allocBy = [b \in BufIds |-> 0]
    /\ mem = [b \in BufIds |-> <<>>]
    /\ last = NoCall

(* The constituent lists drawn for addTensors: one or two tensors with     *)
(* lower numbers.                                                          *)
OwnLists(t) ==
    {<<a>> : a \in 1..(t - 1)} \cup
    {<<a, b>> : a \in 1..(t - 1), b \in 1..(t - 1)}

Next ==
    \/ \E t \in TensorIds, shp \in OwnShapes : Reshape(t, shp)
    \/ \E t \in TensorIds, u \in BOOLEAN : TransShape(t, "SEQUENCE", "DIMENSION", u)
    \/ \E t \in TensorIds : Alloc(t)
    \/ \E t \in TensorIds : Free(t)
    \/ \E t \in TensorIds : Destroy(t)
    \/ \E t \in TensorIds, c \in BOOLEAN, o \in OwnOffsets :
           \E source \in 1..(t - 1) : DeepCopyFrom(t, source, c, o, 1)
    \/ \E t \in TensorIds : \E tsq \in OwnLists(t) : AddTensors(t, tsq, "SEQUENCE")

Spec == Init /\ [][Next]_vars

--------------------------------------------------------------------------
(* Ownership of buffers *)

IsChild(t) == tensors[t].master_tensor_ # 0
IsAggregate(t) == tensors[t].aggregated_

(* C1: no buffer obtained from the backend is released more than once;     *)
(* every release was made by a tensor that had no master and was not       *)
(* aggregated (destroying or freeing a child or an aggregate releases      *)
(* nothing); and the buffer of a tensor that was destroyed as an owning    *)
(* root was released exactly once.                                         *)
C1_NoDoubleRelease ==
    /\ \A b \in BufIds : relCount[b] <= 1
    /\ \A e \in relLog : e.master = 0 /\ ~e.agg
    /\ \A b \in BufIds :
           (/\ allocBy[b] # 0
            /\ ~tensors[allocBy[b]].alive
            /\ ~IsChild(allocBy[b])
            /\ ~IsAggregate(allocBy[b])) => relCount[b] = 1

(* A master that owned a buffer was destroyed before its child, and the    *)
(* child was destroyed after it.                                           *)
C1_Witness ==
    /\ last.op = "dtor"
    /\ IsChild(last.t)
    /\ ~tensors[tensors[last.t].master_tensor_].alive
    /\ tensors[last.t].host_ptr_ # 0
    /\ relCount[tensors[last.t].host_ptr_] = 1

(* C2: free() and the destructor hand host_ptr_ to the backend exactly     *)
(* when it is non-null and the tensor has no master and is not aggregated, *)
(* and release nothing else; free() then leaves host_ptr_ null and         *)
(* allocated_ 0, so that a free() repeated at once releases nothing; on a  *)
(* child or an aggregate free() changes no field.  No call changes another *)
(* tensor.                                                                 *)
C2_FreeReleasesOwned ==
    [][\A t \in TensorIds :
         (last'.n = last.n + 1 /\ last'.t = t /\ last'.op \in {"free", "dtor"}) =>
           LET old == tensors[t]
               owns == old.host_ptr_ # 0 /\ old.master_tensor_ = 0 /\ ~old.aggregated_
           IN  /\ owns => relCount' = [relCount EXCEPT ![old.host_ptr_] = @ + 1]
               /\ ~owns => relCount' = relCount
               /\ (last'.op = "free" /\ owns) =>
                      tensors'[t] = [old EXCEPT !.host_ptr_ = 0, !.allocated_ = 0]
               /\ (last'.op = "free" /\ ~owns) => tensors'[t] = old
               /\ (last'.op = "free" /\ last.op = "free" /\ last.t = t) =>
                      relCount' = relCount
               /\ \A u \in TensorIds \ {t} : tensors'[u] = tensors[u]
               /\ nextBuf' = nextBuf /\ mem' = mem
      ]_vars

(* free() was called on a child that holds its master's buffer, and the    *)
(* buffer is not released.                                                 *)
C2_Witness ==
    /\ last.op = "free"
    /\ IsChild(last.t)
    /\ tensors[last.t].host_ptr_ # 0
    /\ relCount[tensors[last.t].host_ptr_] = 0

(* The root reached from t by following master_tensor_. *)
RECURSIVE rootOf(_, _)
rootOf(ts, t) == IF ts[t].master_tensor_ = 0 THEN t ELSE rootOf(ts, ts[t].master_tensor_)

ChildPtrsAgree(ts) ==
    \A t \in TensorIds :
        (ts[t].alive /\ ts[t].master_tensor_ # 0 /\ ts[rootOf(ts, t)].alive) =>
            ts[t].host_ptr_ = ts[rootOf(ts, t)].host_ptr_

(* C3, as claimed: free() keeps the host_ptr_ of every child equal to the  *)
(* host_ptr_ of its root: where they agree before a free(), they agree     *)
(* after it.                                                               *)
C3_ChildPtrEqualsRoot ==
    [][(last'.n = last.n + 1 /\ last'.op = "free" /\ ChildPtrsAgree(tensors))
          => ChildPtrsAgree(tensors')]_vars

(* C4, as claimed: no live tensor is both a child and an aggregate, and an *)
(* aggregate holds no buffer pointer.                                      *)
C4_OneRole ==
    \A t \in TensorIds :
        tensors[t].alive =>
            /\ ~(IsChild(t) /\ IsAggregate(t))
            /\ IsAggregate(t) => tensors[t].host_ptr_ = 0

--------------------------------------------------------------------------
(* The shape specification: one tensor, tensor 1, is reshaped, transposed  *)
(* and allocated.  last keeps the call, its arguments, what it returned    *)
(* and the tensor as it was before the call.                               *)

Obs(op, t, args, ret) ==
    [op |-> op, t |-> t, args |-> args, ret |-> ret, n |-> 1, pre |-> tensors[t]]

(* The shape vectors drawn: extents 0, 1 and MaxExt, the first axis 1. *)
ShVectors ==
    {<<1, x, y, z>> : x \in {1, MaxExt}, y \in {0, 1, MaxExt}, z \in {1, MaxExt}}

ShTrans ==
    {<<"SEQUENCE", "DIMENSION">>, <<"BATCH", "SEQUENCE">>, <<"THW", "CHANNLE">>,
     <<"DIMENSION", "SEQUENCE">>}

(* reshape(const vector<int>&) with the vector shp *)
ShReshape(shp) ==
    /\ LET r == reshapeVec(tensors[1], shp)
       IN  /\ ~r.fatal
           /\ tensors' = [tensors EXCEPT ![1] = r.t]
           /\ last' = Obs("reshape", 1, shp, r.ret)
    /\ UNCHANGED <<nextBuf, relCount, relLog, allocBy, mem>>

ShTransShape(dim_a, dim_b, undiffusion) ==
    /\ LET r == transShape(tensors[1], dim_a, dim_b, undiffusion)
       IN  /\ ~r.fatal
           /\ tensors' = [tensors EXCEPT ![1] = r.t]
           /\ last' = Obs("transShape", 1, <<dim_a, dim_b, undiffusion>>, FALSE)
    /\ UNCHANGED <<nextBuf, relCount, relLog, allocBy, mem>>

(* alloc() of a tensor that holds no buffer yet *)
ShAlloc ==
    /\ tensors[1].count_ > 0
    /\ tensors[1].host_ptr_ = 0
    /\ nextBuf <= MaxBuf
    /\ tensors' = [tensors EXCEPT ![1].host_ptr_ = nextBuf,
                                  ![1].allocated_ = tensors[1].count_]
    /\ nextBuf' = nextBuf + 1
    /\ allocBy' = [allocBy EXCEPT ![nextBuf] = 1]
    /\ mem' = [mem EXCEPT ![nextBuf] = [i \in 1..tensors[1].count_ |-> Unwritten]]
    /\ last' = Obs("alloc", 1, <<>>, FALSE)
    /\ UNCHANGED <<relCount, relLog>>

ShNext ==
    \/ \E shp \in ShVectors : ShReshape(shp)
    \/ \E p \in ShTrans, u \in BOOLEAN : ShTransShape(p[1], p[2], u)
    \/ ShAlloc

SpecShape == Init /\ [][ShNext]_vars

(* C5: reshape never lowers capacity_; it returns true and sets capacity_  *)
(* to the new count exactly when the new count exceeds the capacity_ held  *)
(* before the call, and otherwise returns false and leaves capacity_       *)
(* unchanged; host_ptr_ is unchanged; capacity_ >= count_ afterwards; and  *)
(* a reshape to a smaller count followed by a reshape back to the count    *)
(* held before returns false both times.                                   *)
C5_ReshapeCapacity ==
    [][(last'.op = "reshape") =>
         LET old == tensors[1]
             new == tensors'[1]
         IN  /\ new.capacity_ >= old.capacity_
             /\ last'.ret = (new.count_ > old.capacity_)
             /\ last'.ret => new.capacity_ = new.count_
             /\ ~last'.ret => new.capacity_ = old.capacity_
             /\ new.host_ptr_ = old.host_ptr_
             /\ new.capacity_ >= new.count_
             /\ (/\ last.op = "reshape"
                 /\ last.pre.count_ # Uninit
                 /\ last.pre.capacity_ >= last.pre.count_
                 /\ old.count_ < last.pre.count_
                 /\ new.count_ = last.pre.count_) => (~last.ret /\ ~last'.ret)
      ]_vars

(* A tensor holding a buffer was reshaped to a smaller count and then back *)
(* to the count it had, and holds the same buffer.                         *)
C5_Witness ==
    /\ last.op = "reshape"
    /\ ~last.ret
    /\ last.pre.count_ # Uninit
    /\ last.pre.count_ < tensors[1].count_
    /\ tensors[1].host_ptr_ # 0
    /\ tensors[1].capacity_ = tensors[1].count_

(* C7: transShape(SEQUENCE, DIMENSION) on a BSHD tensor makes the tag BHDS *)
(* and leaves batch(), head(), sequence() and dimension() as they were.    *)
C7_TransKeepsExtents ==
    [][(/\ last'.op = "transShape"
        /\ last'.args[1] = "SEQUENCE" /\ last'.args[2] = "DIMENSION"
        /\ tensors[1].ctype_ = "BSHD") =>
         /\ tensors'[1].ctype_ = "BHDS"
         /\ batch(tensors'[1]) = batch(tensors[1])
         /\ head(tensors'[1]) = head(tensors[1])
         /\ sequence(tensors'[1]) = sequence(tensors[1])
         /\ dimension(tensors'[1]) = dimension(tensors[1])
      ]_vars

(* A BSHD tensor whose sequence and dimension extents differ was           *)
(* transposed to BHDS.                                                     *)
C7_Witness ==
    /\ last.op = "transShape"
    /\ last.pre.ctype_ = "BSHD"
    /\ tensors[1].ctype_ = "BHDS"
    /\ Len(last.pre.shape_) = 4
    /\ sequence(last.pre) # dimension(last.pre)
    /\ head(last.pre) # sequence(last.pre)

--------------------------------------------------------------------------
(* The view specification: tensor 1 is a master that holds buffer 1,       *)
(* tensor 2 is bound to it with deepCopyFrom, and offset and setDataAt are *)
(* called on both.                                                         *)

(* The master's logical extents drawn: all positive, at most MaxExt + 2    *)
(* elements.                                                               *)
ViewShapes ==
    {q \in {<<b, h, s, d>> : b \in 1..MaxExt, h \in 1..MaxExt,
                              s \in 1..MaxExt, d \in 1..MaxExt} :
        q[1] * q[2] * q[3] * q[4] <= MaxExt + 2}

(* The transShape call made on a tensor before the binding, if any. *)
ViewTrans == {"none", "SD", "SDu", "BS"}

Transposed(t, how) ==
    CASE how = "SD" -> transShape(t, "SEQUENCE", "DIMENSION", FALSE).t
      [] how = "SDu" -> transShape(t, "SEQUENCE", "DIMENSION", TRUE).t
      [] how = "BS" -> transShape(t, "BATCH", "SEQUENCE", FALSE).t
      [] OTHER -> t

(* The windows drawn: the origin 0..MaxOff on one axis, 0 on the others. *)
Windows ==
    {[k \in 1..4 |-> IF k = axis THEN o ELSE 0] : axis \in 1..4, o \in 0..MaxOff}

(* The child before the binding: as constructed, or reshaped to one of     *)
(* these extents.                                                          *)
ChildShapes == {<<>>, <<1, 1, MaxExt, 1>>, <<1, MaxExt, 1, 1>>}

Reshaped(t, shp) ==
    IF shp = <<>> THEN t ELSE reshape4(t, shp[1], shp[2], shp[3], shp[4]).t

ViewInit ==
    \E shp \in ViewShapes, mt \in ViewTrans \ {"SDu"}, ct \in ViewTrans,
       cs \in ChildShapes :
        LET m0 == Transposed(reshape4(NewTensor, shp[1], shp[2], shp[3], shp[4]).t, mt)
            m == [m0 EXCEPT !.host_ptr_ = 1, !.allocated_ = m0.count_]
        IN  /\ tensors = [t \in TensorIds |->
                            IF t = 1 THEN m
                            ELSE IF t = 2 THEN Transposed(Reshaped(NewTensor, cs), ct)
                            ELSE NewTensor]
            /\ nextBuf = 2
            /\ relCount = [b \in BufIds |-> 0]
            /\ relLog = {}
            /\ allocBy = [b \in BufIds |-> IF b = 1 THEN 1 ELSE 0]
            /\ mem = [b \in BufIds |->
                        IF b = 1 THEN [i \in 1..m0.count_ |-> Unwritten] ELSE <<>>]
            /\ last = NoCall

IsWindowed(t) == Len(t.shape_offset_) = 4 /\ Len(t.shape_master_) = 4

(* The index tuples inside the logical extents of t. *)
ValidIdx(t) ==
    {<<b, h, s, d>> : b \in 0..(batch(t) - 1), h \in 0..(head(t) - 1),
                      s \in 0..(sequence(t) - 1), d \in 0..(dimension(t) - 1)}

Shifted(i, axis, by) == [i EXCEPT ![axis] = @ + by]

(* The index tuples offset is called with: those inside the extents and,   *)
(* on a windowed child, those one master extent further on one axis.       *)
CallIdx(t) ==
    ValidIdx(t) \cup
    (IF IsWindowed(t)
     THEN {Shifted(i, axis, t.shape_master_[axis]) : i \in ValidIdx(t), axis \in 1..4}
     ELSE {})

(* The binding is the first call. *)
VwBind(copyshape, shape_offset, head_rep) ==
    /\ last.op = "none"
    /\ tensors[2].master_tensor_ = 0
    /\ LET r == deepCopyFrom(tensors, 2, 1, copyshape, shape_offset, head_rep)
       IN  /\ ~r.fatal
           /\ tensors' = r.ts
           /\ last' = Obs("deepCopyFrom", 2, <<copyshape, shape_offset, head_rep>>, FALSE)
    /\ UNCHANGED <<nextBuf, relCount, relLog, allocBy, mem>>

(* One offset call, on the tensors as constructed or as bound. *)
VwOffset(t, i) ==
    /\ last.op \in {"none", "deepCopyFrom"}
    /\ Len(tensors[t].shape_) = 4 \/ IsWindowed(tensors[t])
    /\ last' = Obs("offset", t, i, offset(tensors[t], i[1], i[2], i[3], i[4]))
    /\ UNCHANGED <<tensors, nextBuf, relCount, relLog, allocBy, mem>>

(* One setDataAt, with the value "v", on a buffer nothing was written to. *)
VwSetDataAt(t, i) ==
    /\ last.op \in {"none", "deepCopyFrom"}
    /\ Len(tensors[t].shape_) = 4 \/ IsWindowed(tensors[t])
    /\ LET w == writeTarget(tensors, t, i[1], i[2], i[3], i[4], 0)
       IN  inBuffer(mem, w.ptr, w.off)
    /\ mem' = setDataAt(tensors, mem, t, i[1], i[2], i[3], i[4], "v", 0)
    /\ last' = Obs("setDataAt", t, i, "v")
    /\ UNCHANGED <<tensors, nextBuf, relCount, relLog, allocBy>>

ViewNext ==
    \/ \E c \in BOOLEAN, o \in {<<>>} \cup Windows, r \in 1..2 : VwBind(c, o, r)
    \/ \E t \in 1..2 : \E i \in CallIdx(tensors[t]) : VwOffset(t, i)
    \/ \E t \in 1..2 : \E i \in ValidIdx(tensors[t]) : VwSetDataAt(t, i)

SpecView == ViewInit /\ [][ViewNext]_vars

(* C6: for a plain tensor with positive extents (B,H,S,D) under BSHD, BHDS *)
(* or SBHD, offset over the index tuples inside the extents is a bijection *)
(* onto 0 .. B*H*S*D - 1.                                                  *)
C6_OffsetBijection ==
    \A t \in TensorIds :
        LET x == tensors[t]
            n == batch(x) * head(x) * sequence(x) * dimension(x)
        IN  (/\ x.alive /\ x.master_tensor_ = 0 /\ ~x.aggregated_
             /\ ~IsWindowed(x)
             /\ Len(x.shape_) = 4
             /\ x.ctype_ \in {"BSHD", "BHDS", "SBHD"}
             /\ \A k \in 1..4 : x.shape_[k] > 0) =>
                /\ {offset(x, i[1], i[2], i[3], i[4]) : i \in ValidIdx(x)} = 0..(n - 1)
                /\ Cardinality(ValidIdx(x)) = n

(* offset was called on the plain BHDS master, which has two extents above *)
(* 1, with its last index tuple and returned the last element.             *)
C6_Witness ==
    /\ last.op = "offset"
    /\ last.t = 1
    /\ tensors[1].ctype_ = "BHDS"
    /\ tensors[1].master_tensor_ = 0
    /\ Cardinality({k \in 1..4 : tensors[1].shape_[k] > 1}) = 2
    /\ last.args = <<batch(tensors[1]) - 1, head(tensors[1]) - 1,
                     sequence(tensors[1]) - 1, dimension(tensors[1]) - 1>>
    /\ last.ret = tensors[1].count_ - 1

(* Tensor 2 is bound to tensor 1, which is no child itself. *)
Bound ==
    /\ tensors[2].master_tensor_ = 1
    /\ tensors[1].master_tensor_ = 0
    /\ ~tensors[1].aggregated_ /\ ~tensors[2].aggregated_

(* The child has the master's shape_ and no window. *)
SharesShape ==
    /\ ~IsWindowed(tensors[2])
    /\ tensors[2].shape_ = tensors[1].shape_

(* The index the window of the child c maps the index i to. *)
Wrapped(c, i) ==
    [k \in 1..4 |-> CMod(i[k] + c.shape_offset_[k], c.shape_master_[k])]

Read(t, i) == dataAt(tensors, mem, t, i[1], i[2], i[3], i[4], 0)

(* C8, as the specification states it: a value written through the child   *)
(* at an index is read through the master at the same index, and a value   *)
(* written through the master is read through the child at the same index, *)
(* when the child has the master's shape and when it is windowed.          *)
C8_SameIndex ==
    (/\ last.op = "setDataAt"
     /\ Bound
     /\ SharesShape \/ IsWindowed(tensors[2])
     /\ last.args \in ValidIdx(tensors[1]) \cap ValidIdx(tensors[2])) =>
        Read(IF last.t = 2 THEN 1 ELSE 2, last.args) = last.ret

(* C8, amended: for a child that carries its master's layout tag, when the *)
(* child has the master's shape_ and no window, a value written through    *)
(* one of the two at an index is read through the other at the same index; *)
(* when the child is windowed with origin o and its shape_master_ is the   *)
(* master's extents (B,H,S,D), a value written through the child at        *)
(* (b,h,s,d) is read through the master at ((b+o[0]) mod B, (h+o[1]) mod   *)
(* H, (s+o[2]) mod S, (d+o[3]) mod D), and a value written through the     *)
(* master at an index is read through the child at every index the window  *)
(* maps to it.                                                             *)
C8_WindowMapped ==
    (/\ last.op = "setDataAt"
     /\ Bound
     /\ tensors[2].ctype_ = tensors[1].ctype_) =>
        LET m == tensors[1]
            c == tensors[2]
        IN  /\ (SharesShape /\ last.args \in ValidIdx(m) \cap ValidIdx(c)) =>
                   Read(IF last.t = 2 THEN 1 ELSE 2, last.args) = last.ret
            /\ (/\ IsWindowed(c)
                /\ c.shape_master_ = <<batch(m), head(m), sequence(m), dimension(m)>>) =>
                   /\ last.t = 2 => Read(1, Wrapped(c, last.args)) = last.ret
                   /\ last.t = 1 =>
                          \A i \in ValidIdx(c) :
                              Wrapped(c, i) = last.args => Read(2, i) = last.ret

(* A value was written through a windowed child whose window maps the      *)
(* index written to another index of the master.                           *)
C8_Witness ==
    /\ last.op = "setDataAt"
    /\ last.t = 2
    /\ Bound
    /\ tensors[2].ctype_ = tensors[1].ctype_
    /\ IsWindowed(tensors[2])
    /\ tensors[2].shape_master_ = <<batch(tensors[1]), head(tensors[1]),
                                    sequence(tensors[1]), dimension(tensors[1])>>
    /\ Wrapped(tensors[2], last.args) # last.args
    /\ Read(1, Wrapped(tensors[2], last.args)) = "v"
    /\ Read(1, last.args) # "v"

(* The index tuples of one period of the window of t: entry k runs over    *)
(* 0 .. M[k] - 1, M the master shape t recorded.                           *)
PeriodIdx(t) ==
    {<<b, h, s, d>> : b \in 0..(t.shape_master_[1] - 1), h \in 0..(t.shape_master_[2] - 1),
                      s \in 0..(t.shape_master_[3] - 1), d \in 0..(t.shape_master_[4] - 1)}

(* C9: for a child with a 4-entry shape_offset_ and a 4-entry master shape *)
(* M, offset(i) = offset(i with one axis's index increased by M[axis]) for *)
(* each axis and every non-negative i, under BSHD, BHDS and SBHD; i runs   *)
(* over one period and the index increased over the next.                  *)
C9_OffsetPeriodic ==
    \A t \in TensorIds :
        (tensors[t].alive /\ IsWindowed(tensors[t])
         /\ tensors[t].ctype_ \in {"BSHD", "BHDS", "SBHD"}) =>
            \A i \in PeriodIdx(tensors[t]), axis \in 1..4 :
                LET j == Shifted(i, axis, tensors[t].shape_master_[axis])
                IN  offset(tensors[t], i[1], i[2], i[3], i[4]) =
                    offset(tensors[t], j[1], j[2], j[3], j[4])

(* offset was called on a windowed child with an index that lies a master  *)
(* extent above an index inside the extents, on an axis where the master's *)
(* extent is above 1 and the window's origin is not 0, and returned what   *)
(* it returns for the index inside.                                        *)
C9_Witness ==
    /\ last.op = "offset"
    /\ last.t = 2
    /\ IsWindowed(tensors[2])
    /\ \E axis \in 1..4 :
           /\ tensors[2].shape_master_[axis] > 1
           /\ tensors[2].shape_offset_[axis] > 0
           /\ last.args[axis] >= tensors[2].shape_master_[axis]
           /\ LET i == Shifted(last.args, axis, 0 - tensors[2].shape_master_[axis])
              IN  last.ret = offset(tensors[2], i[1], i[2], i[3], i[4])

--------------------------------------------------------------------------
(* The aggregate specification: tensors 1 and 2 are constituents, tensor 3 *)
(* is made an aggregate over them with addTensors, and checkDim is called  *)
(* on it.                                                                  *)

AggDims == {"HEAD", "SEQUENCE", "DIMENSION"}

(* The values of dim that checkDim has a case for. *)
AggModes == AggDims \cup {"D_HD", "HD"}

(* The constituent lists drawn. *)
AggLists == {<<1>>, <<1, 2>>, <<2, 1>>, <<1, 2, 1>>}

(* The extents (batch, head, sequence, dimension) with e on the axis dim   *)
(* and 1 on the others.                                                    *)
AlongAxis(dim, e) ==
    <<1, IF dim = "HEAD" THEN e ELSE 1, IF dim = "SEQUENCE" THEN e ELSE 1,
      IF dim = "DIMENSION" THEN e ELSE 1>>

(* What a read of the int in front of the elements of aggregated_dims_     *)
(* gives.                                                                  *)
OobValues == {0 - 1, 0, 1}

AggInit ==
    \E dim \in AggDims, e1 \in 1..MaxExt, e2 \in 1..MaxExt, tsq \in AggLists :
        LET ext == [t \in 1..2 |-> IF t = 1 THEN e1 ELSE e2]
            total == SeqSum([k \in 1..Len(tsq) |-> ext[tsq[k]]])
        IN  /\ tensors = [t \in TensorIds |->
                            IF t = 1 THEN Reshaped(NewTensor, AlongAxis(dim, e1))
                            ELSE IF t = 2 THEN Reshaped(NewTensor, AlongAxis(dim, e2))
                            ELSE IF t = 3 THEN Reshaped(NewTensor, AlongAxis(dim, total))
                            ELSE NewTensor]
            /\ nextBuf = 1
            /\ relCount = [b \in BufIds |-> 0]
            /\ relLog = {}
            /\ allocBy = [b \in BufIds |-> 0]
            /\ mem = [b \in BufIds |-> <<>>]
            /\ last = NoCall

AgAddTensors(tsq, dim) ==
    /\ ~tensors[3].aggregated_
    /\ addTensorsOk(tensors, 3, tsq, dim)
    /\ tensors' = [tensors EXCEPT ![3] = addTensors(tensors, 3, tsq, dim)]
    /\ last' = Obs("addTensors", 3, <<tsq, dim>>, FALSE)
    /\ UNCHANGED <<nextBuf, relCount, relLog, allocBy, mem>>

(* One checkDim call on the aggregate, oob being what a read outside       *)
(* aggregated_dims_ gives.                                                 *)
AgCheckDim(i, oob) ==
    /\ tensors[3].aggregated_
    /\ last.op = "addTensors"
    /\ last' = Obs("checkDim", 3, i, checkDim(tensors, 3, i[1], i[2], i[3], i[4], oob))
    /\ UNCHANGED <<tensors, nextBuf, relCount, relLog, allocBy, mem>>

AggNext ==
    \/ \E tsq \in AggLists, dim \in AggModes : AgAddTensors(tsq, dim)
    \/ \E i \in ValidIdx(tensors[3]), oob \in OobValues : AgCheckDim(i, oob)

SpecAgg == AggInit /\ [][AggNext]_vars

(* The index of i along the axis dim. *)
AxisIndex(dim, i) ==
    CASE dim = "HEAD" -> i[2]
      [] dim = "SEQUENCE" -> i[3]
      [] dim = "DIMENSION" -> i[4]

(* C10: for an aggregate over HEAD, SEQUENCE or DIMENSION with prefix-sum  *)
(* table T, checkDim with an index i in [0, T[last]) along the aggregation *)
(* axis returns the first slot k with i < T[k] and rewrites the index to   *)
(* i - T[k-1], T[-1] counting as 0, and leaves the other three indices     *)
(* unchanged.                                                              *)
C10_FirstSlotLocalIndex ==
    (/\ last.op = "checkDim"
     /\ tensors[3].aggregated_
     /\ tensors[3].aggregated_dim_ \in AggDims) =>
        LET T == tensors[3].aggregated_dims_
            dim == tensors[3].aggregated_dim_
            x == AxisIndex(dim, last.args)
            k == MinOf({a \in 1..Len(T) : x < T[a]})
            local == x - (IF k = 1 THEN 0 ELSE T[k - 1])
            want == CASE dim = "HEAD" -> [last.args EXCEPT ![2] = local]
                      [] dim = "SEQUENCE" -> [last.args EXCEPT ![3] = local]
                      [] dim = "DIMENSION" -> [last.args EXCEPT ![4] = local]
        IN  /\ last.ret.id = k - 1
            /\ <<last.ret.b, last.ret.h, last.ret.s, last.ret.d>> = want

--------------------------------------------------------------------------
(* SystemMemoryManager.  In the two specifications below a buffer is a     *)
(* block malloc returned: allocBy[b] records the alloc call that obtained  *)
(* block b (NoBlock before it), mem maps the address of each hidden pointer slot *)
(* written to the pointer stored there, relCount[b] counts the calls of    *)
(* ::free on block b, and relLog collects the arguments of ::free that     *)
(* are no block in use.                                                    *)

PtrSize == 8

(* Addresses are modelled 16 bits wide; none drawn comes near the top. *)
AddrSpace == 2 ^ 16

RECURSIVE BitAnd(_, _)
BitAnd(x, y) ==
    IF x = 0 \/ y = 0 THEN 0
    ELSE (x % 2) * (y % 2) + 2 * BitAnd(x \div 2, y \div 2)

(* ~(alignment - 1) *)
NotLowBits(alignment) == (AddrSpace - 1) - (alignment - 1)

(* The size handed to malloc (line 16). *)
mallocBytes(size, alignment) == size + PtrSize + alignment - 1

(* An aligned pointer computed without the alignment - 1 that rounds up. *)
alignedPtrRoundedDown(origin, alignment) ==
    BitAnd(origin + PtrSize, NotLowBits(alignment))

(* aligned (line 21) *)
alignedPtr(origin, alignment) ==
    BitAnd(origin + PtrSize + alignment - 1, NotLowBits(alignment))

(* The address of aligned[-1]. *)
hiddenSlot(ptr) == ptr - PtrSize

(* The pointer slots a write of the slot at address a leaves as they were. *)
slotsKept(memv, a) ==
    {x \in DOMAIN memv : x + PtrSize <= a \/ a + PtrSize <= x}

(* aligned[-1] = origin (line 22) *)
storeSlot(memv, a, origin) ==
    [x \in slotsKept(memv, a) \cup {a} |-> IF x = a THEN origin ELSE memv[x]]

(* A free that hands the aligned pointer itself to ::free. *)
freeArgAligned(memv, ptr) == ptr

(* The pointer read from the slot in front of ptr (line 27). *)
freeArg(memv, ptr) == memv[hiddenSlot(ptr)]

NoBlock ==
    [origin |-> 0, bytes |-> 0, size |-> 0, alignment |-> 0, ptr |-> 0, freed |-> FALSE]

Allocated(b) == allocBy[b].origin # 0
InUse(b) == Allocated(b) /\ relCount[b] = 0
Overlaps(b, origin, bytes) ==
    /\ allocBy[b].origin < origin + bytes
    /\ origin < allocBy[b].origin + allocBy[b].bytes

MmCall(op, args, ret) ==
    [op |-> op, t |-> 0, args |-> args, ret |-> ret, n |-> 1, pre |-> <<>>]

(* SystemMemoryManager::alloc(ptr, size, alignment), malloc returning the  *)
(* address origin, which no block in use overlaps.                         *)
MmAlloc(origin, size, alignment) ==
    /\ size > 0
    /\ nextBuf <= MaxBuf
    /\ origin # 0
    /\ \A b \in BufIds :
           InUse(b) => ~Overlaps(b, origin, mallocBytes(size, alignment))
    /\ LET aligned == alignedPtr(origin, alignment)
       IN  /\ allocBy' = [allocBy EXCEPT ![nextBuf] =
                            [origin |-> origin, bytes |-> mallocBytes(size, alignment),
                             size |-> size, alignment |-> alignment,
                             ptr |-> aligned, freed |-> FALSE]]
           /\ mem' = storeSlot(mem, hiddenSlot(aligned), origin)
           /\ last' = MmCall("alloc", <<size, alignment>>, aligned)
    /\ nextBuf' = nextBuf + 1
    /\ UNCHANGED <<tensors, relCount, relLog>>

(* SystemMemoryManager::free(ptr), ptr the result of the alloc call that   *)
(* obtained block b and not handed to free before.                         *)
MmFree(b) ==
    /\ Allocated(b)
    /\ ~allocBy[b].freed
    /\ LET arg == freeArg(mem, allocBy[b].ptr)
           hit == {x \in BufIds : InUse(x) /\ allocBy[x].origin = arg}
       IN  /\ relCount' = [x \in BufIds |-> IF x \in hit THEN relCount[x] + 1
                                            ELSE relCount[x]]
           /\ relLog' = IF hit = {} THEN relLog \cup {arg} ELSE relLog
           /\ last' = MmCall("free", <<allocBy[b].ptr>>, arg)
    /\ allocBy' = [allocBy EXCEPT ![b].freed = TRUE]
    /\ UNCHANGED <<tensors, nextBuf, mem>>

MmInit ==
    /\ tensors = [t \in TensorIds |-> NewTensor]
    /\ nextBuf = 1
    /\ relCount = [b \in BufIds |-> 0]
    /\ relLog = {}
    /\ allocBy = [b \in BufIds |-> NoBlock]
    /\ mem = <<>>
    /\ last = NoCall

Alignments == {16, 32, 64}

(* The alignment specification: one alloc, malloc returning any address of *)
(* a range two alignments long.                                            *)
AlignOrigins == 1..128

AlignNext ==
    \E origin \in AlignOrigins, size \in 0..MaxExt, alignment \in Alignments :
        nextBuf = 1 /\ MmAlloc(origin, size, alignment)

SpecAlign == MmInit /\ [][AlignNext]_vars

(* The heap specification: alloc and free calls, malloc returning one of a *)
(* few addresses, so that blocks lie side by side and blocks released are  *)
(* handed out again.                                                       *)
HeapOrigins == {8, 16, 48, 112}

HeapNext ==
    \/ \E origin \in HeapOrigins, size \in {1, MaxExt}, alignment \in {16, 64} :
           MmAlloc(origin, size, alignment)
    \/ \E b \in BufIds : MmFree(b)

SpecHeap == MmInit /\ [][HeapNext]_vars

(* C11: alloc with size > 0 and alignment 16, 32 or 64 returns a pointer p *)
(* with p % alignment = 0 such that the pointer slot before p and the      *)
(* region [p, p + size) lie inside the block of size + sizeof(void* ) +    *)
(* alignment - 1 bytes malloc returned, whatever address malloc returned.  *)
C11_AlignedInsideBlock ==
    \A b \in BufIds :
        Allocated(b) =>
            LET a == allocBy[b]
            IN  /\ a.bytes = a.size + PtrSize + a.alignment - 1
                /\ a.ptr % a.alignment = 0
                /\ a.origin <= hiddenSlot(a.ptr)
                /\ a.ptr + a.size <= a.origin + a.bytes

(* alloc returned a pointer for alignment 64 from an address that is no    *)
(* multiple of 8, with the region ending where the block ends.             *)
C11_Witness ==
    /\ last.op = "alloc"
    /\ Allocated(1)
    /\ allocBy[1].alignment = 64
    /\ allocBy[1].origin % 8 # 0
    /\ allocBy[1].ptr + allocBy[1].size = allocBy[1].origin + allocBy[1].bytes

(* C12: free(p), p returned by alloc, releases exactly the block malloc    *)
(* returned during that alloc; with each result of alloc handed to free at *)
(* most once, a block is released exactly when its pointer was handed to   *)
(* free, so none is released twice and none whose pointer was freed stays  *)
(* unreleased, and ::free is handed nothing but blocks in use.             *)
C12_FreeReleasesBlock ==
    /\ relLog = {}
    /\ \A b \in BufIds :
           relCount[b] = IF Allocated(b) /\ allocBy[b].freed THEN 1 ELSE 0

(* Two blocks at the same address, the second obtained after the first was *)
(* released, have both been freed.                                         *)
C12_Witness ==
    /\ last.op = "free"
    /\ Allocated(1) /\ Allocated(2)
    /\ allocBy[1].origin = allocBy[2].origin
    /\ allocBy[1].ptr # allocBy[2].ptr
    /\ allocBy[1].freed /\ allocBy[2].freed

--------------------------------------------------------------------------
(* addTensors *)

(* The extent of t along the axis dim. *)
ExtentAlong(t, dim) ==
    CASE dim = "HEAD" -> head(t)
      [] dim = "SEQUENCE" -> sequence(t)
      [] dim = "DIMENSION" -> dimension(t)

(* What the specification says of a completed addTensors(tsq, dim) on the  *)
(* aggregate 3: the extents off the axis agree, and the table holds the    *)
(* running sums, the last one the aggregate's own extent.                  *)
OthersAgree(tsq, dim) ==
    \A k \in 1..Len(tsq) :
        LET c == tensors[tsq[k]]
            me == tensors[3]
        IN  /\ batch(c) = batch(me)
            /\ dim # "HEAD" => head(c) = head(me)
            /\ dim # "SEQUENCE" => sequence(c) = sequence(me)
            /\ dim # "DIMENSION" => dimension(c) = dimension(me)

TableIsRunningSum(tsq, dim) ==
    LET T == tensors[3].aggregated_dims_
    IN  /\ Len(T) = Len(tsq)
        /\ \A k \in 1..Len(T) :
               T[k] = SeqSum([j \in 1..k |-> ExtentAlong(tensors[tsq[j]], dim)])
        /\ Len(T) > 0 => T[Len(T)] = ExtentAlong(tensors[3], dim)

(* C13, as the specification states it, for every axis value: a completed  *)
(* addTensors leaves a table with one entry per constituent, and for HEAD, *)
(* SEQUENCE and DIMENSION the extents off the axis agree and the entries   *)
(* are the running sums.                                                   *)
C13_AnyAxis ==
    (last.op = "addTensors") =>
        /\ Len(tensors[3].aggregated_dims_) = Len(last.args[1])
        /\ last.args[2] \in AggDims =>
               /\ OthersAgree(last.args[1], last.args[2])
               /\ TableIsRunningSum(last.args[1], last.args[2])

(* C13, amended: addTensors(ts, axis) with axis HEAD, SEQUENCE or          *)
(* DIMENSION completes only if every constituent's three logical extents   *)
(* other than axis equal this tensor's and the constituents' extents along *)
(* axis sum to this tensor's extent along axis; on completion              *)
(* aggregated_dims_ has one entry per constituent, entry k the sum of the  *)
(* extents of constituents 0..k along axis, the last entry this tensor's   *)
(* extent along axis.                                                      *)
C13_AddTensorsChecked ==
    (last.op = "addTensors" /\ last.args[2] \in AggDims) =>
        /\ OthersAgree(last.args[1], last.args[2])
        /\ TableIsRunningSum(last.args[1], last.args[2])
        /\ tensors[3].aggregated_
        /\ tensors[3].aggregated_tensors_ = last.args[1]

(* addTensors completed over three constituents along SEQUENCE whose       *)
(* extents are not all equal.                                              *)
C13_Witness ==
    /\ last.op = "addTensors"
    /\ last.args[2] = "SEQUENCE"
    /\ Len(last.args[1]) = 3
    /\ sequence(tensors[1]) # sequence(tensors[2])
    /\ tensors[3].aggregated_dims_[3] = sequence(tensors[3])
    /\ tensors[3].aggregated_dims_[1] < tensors[3].aggregated_dims_[2]

--------------------------------------------------------------------------
(* copyFrom.  In the copy specification tensor 1 is the destination,       *)
(* tensor 2 a source and tensor 3 a master the destination may be bound    *)
(* to; buffer t is the one tensor t obtained, mem[t] its bytes, and byte i *)
(* of buffer t starts as <<t, i>>.                                         *)

Dtypes == {"F32", "F16"}

(* DataTypeSize(dtype, count): the bytes of count elements. *)
DataTypeSize(dtype, count) ==
    CASE dtype = "F32" -> 4 * count
      [] dtype = "F16" -> 2 * count

cntSize(t) == DataTypeSize(t.dtype_, t.count_)

(* The asserts of copyFrom without the one on count. *)
copyFromFatalNoCount(ts, this, source) ==
    \/ ts[this].master_tensor_ # 0
    \/ ts[source].dtype_ # ts[this].dtype_

(* An assert of copyFrom fails. *)
copyFromFatal(ts, this, source) ==
    \/ ts[this].master_tensor_ # 0
    \/ ts[source].dtype_ # ts[this].dtype_
    \/ ts[source].count_ # ts[this].count_

(* memcpy(dst, src, n) is defined: both pointers point to n bytes and the  *)
(* two regions do not overlap.                                             *)
memcpyDefined(memv, dst, src, n) ==
    /\ dst \in DOMAIN memv /\ src \in DOMAIN memv
    /\ n <= Len(memv[dst]) /\ n <= Len(memv[src])
    /\ dst # src

memcpy(memv, dst, src, n) ==
    [memv EXCEPT ![dst] = [i \in 1..Len(memv[dst]) |->
                              IF i <= n THEN memv[src][i] ELSE memv[dst][i]]]

MinLen(a, b) == IF a <= b THEN a ELSE b

(* What memcpy(dst, src, n) may leave where it is undefined: the memory as *)
(* it was, or the bytes copied that both buffers have.                     *)
memcpyUndefined(memv, dst, src, n) ==
    {memv} \cup
    (IF dst \in DOMAIN memv /\ src \in DOMAIN memv
     THEN {memcpy(memv, dst, src,
                  MinLen(n, MinLen(Len(memv[dst]), Len(memv[src]))))}
     ELSE {})

(* How a tensor came by its buffer: none, one of count_ elements, one of a *)
(* single element obtained before a reshape to count_, or one of           *)
(* count_ + 1 elements obtained before a reshape to count_.                *)
BufferKinds == {"none", "exact", "short", "long"}

Allocd(t, id) == [t EXCEPT !.host_ptr_ = id, !.allocated_ = t.count_]

Built(id, dtype, count, kind) ==
    LET t0 == [NewTensor EXCEPT !.dtype_ = dtype]
    IN  CASE kind = "none" -> Reshaped(t0, <<1, 1, count, 1>>)
          [] kind = "exact" -> Allocd(Reshaped(t0, <<1, 1, count, 1>>), id)
          [] kind = "short" ->
               Reshaped(Allocd(Reshaped(t0, <<1, 1, 1, 1>>), id), <<1, 1, count, 1>>)
          [] kind = "long" ->
               Reshaped(Allocd(Reshaped(t0, <<1, 1, count + 1, 1>>), id), <<1, 1, count, 1>>)

BytesOf(id, t) ==
    IF t.host_ptr_ = id
    THEN [i \in 1..DataTypeSize(t.dtype_, t.allocated_) |-> <<id, i>>]
    ELSE <<>>

CopyInit ==
    \E cd \in 1..MaxExt, cs \in 1..MaxExt, dd \in Dtypes, ds \in Dtypes,
       kd \in BufferKinds, ks \in BufferKinds, child \in BOOLEAN :
        LET ts0 == [t \in TensorIds |->
                      IF t = 1 THEN Built(1, dd, cd, kd)
                      ELSE IF t = 2 THEN Built(2, ds, cs, ks)
                      ELSE IF t = 3 THEN Built(3, dd, cd, "exact")
                      ELSE NewTensor]
            ts1 == IF child THEN deepCopyFrom(ts0, 1, 3, TRUE, <<>>, 1).ts ELSE ts0
        IN  /\ tensors = ts1
            /\ mem = [t \in TensorIds |-> BytesOf(t, ts0[t])]
            /\ nextBuf = 1
            /\ relCount = [b \in BufIds |-> 0]
            /\ relLog = {}
            /\ allocBy = [b \in BufIds |-> 0]
            /\ last = NoCall

(* tensor 1's copyFrom(source), once. *)
CpCopyFrom(source) ==
    /\ last.op = "none"
    /\ LET dst == tensors[1].host_ptr_
           src == tensors[source].host_ptr_
           n == cntSize(tensors[1])
       IN  IF copyFromFatal(tensors, 1, source)
           THEN /\ mem' = mem
                /\ last' = Obs("copyFrom", 1, <<source>>, "fatal")
           ELSE IF memcpyDefined(mem, dst, src, n)
           THEN /\ mem' = memcpy(mem, dst, src, n)
                /\ last' = Obs("copyFrom", 1, <<source>>, "copied")
           ELSE /\ mem' \in memcpyUndefined(mem, dst, src, n)
                /\ last' = Obs("copyFrom", 1, <<source>>, "undefined")
    /\ UNCHANGED <<tensors, nextBuf, relCount, relLog, allocBy>>

CopyNext == \E source \in 1..3 : CpCopyFrom(source)

SpecCopy == CopyInit /\ [][CopyNext]_vars

(* The first n bytes of buffer dst are those of buffer src, and every      *)
(* other byte is as it was.                                                *)
CopiedExactly(dst, src, n) ==
    /\ dst \in DOMAIN mem /\ src \in DOMAIN mem
    /\ n <= Len(mem[dst]) /\ n <= Len(mem[src])
    /\ \A b \in DOMAIN mem :
           /\ Len(mem'[b]) = Len(mem[b])
           /\ \A i \in 1..Len(mem[b]) :
                  mem'[b][i] = IF b = dst /\ i <= n THEN mem[src][i] ELSE mem[b][i]

(* Both tensors point to buffers of cntSize() bytes, and not to the same. *)
BuffersHold(d, s) ==
    /\ d.host_ptr_ \in DOMAIN mem /\ s.host_ptr_ \in DOMAIN mem
    /\ cntSize(d) <= Len(mem[d.host_ptr_]) /\ cntSize(d) <= Len(mem[s.host_ptr_])
    /\ d.host_ptr_ # s.host_ptr_

--------------------------------------------------------------------------
(* transShape on what it does not support *)

(* The shape vectors drawn: 4 and 5 entries. *)
TrVectors == {<<1, 1, MaxExt, 1>>, <<1, MaxExt, 1, MaxExt>>,
              <<1, MaxExt, 1, 1, 1>>, <<1, 1, MaxExt, 1, MaxExt>>}

(* setCtype(type) *)
TrSetCtype(type) ==
    /\ tensors[1].ctype_ # type
    /\ tensors' = [tensors EXCEPT ![1].ctype_ = type]
    /\ last' = Obs("setCtype", 1, <<type>>, FALSE)
    /\ UNCHANGED <<nextBuf, relCount, relLog, allocBy, mem>>

TrNext ==
    \/ \E shp \in TrVectors : ShReshape(shp)
    \/ \E type \in {"BSHD", "BCTHW"} : TrSetCtype(type)
    \/ \E p \in ShTrans, u \in BOOLEAN : ShTransShape(p[1], p[2], u)

SpecTrans == Init /\ [][TrNext]_vars

(* The combinations of arguments and tag transShape acts on. *)
Supported(dim_a, dim_b, ctype) ==
    \/ dim_a = "SEQUENCE" /\ dim_b = "DIMENSION" /\ ctype = "BSHD"
    \/ dim_a = "BATCH" /\ dim_b = "SEQUENCE" /\ ctype = "BSHD"
    \/ dim_a = "THW" /\ dim_b = "CHANNLE" /\ ctype = "BCTHW"

(* C15: transShape with any combination other than (SEQUENCE, DIMENSION)   *)
(* on BSHD, (BATCH, SEQUENCE) on BSHD or (THW, CHANNEL) on BCTHW leaves    *)
(* ctype_, shape_, count_, capacity_, transed_ and undiffusion_ unchanged; *)
(* a second identical call after a successful one changes nothing.         *)
C15_UnsupportedIsNoOp ==
    [][(last'.op = "transShape") =>
         LET old == tensors[1]
             new == tensors'[1]
         IN  /\ ~Supported(last'.args[1], last'.args[2], old.ctype_) =>
                    /\ new.ctype_ = old.ctype_
                    /\ new.shape_ = old.shape_
                    /\ new.count_ = old.count_
                    /\ new.capacity_ = old.capacity_
                    /\ new.transed_ = old.transed_
                    /\ new.undiffusion_ = old.undiffusion_
                    /\ new = old
             /\ (/\ last.op = "transShape"
                 /\ last.args = last'.args
                 /\ Supported(last.args[1], last.args[2], last.pre.ctype_)) =>
                    new = old
      ]_vars

(* The second of two identical transShape calls, the first of which made a *)
(* BCTHW tensor BTHWC, was made with an undiffusion flag that the tensor   *)
(* does not carry.                                                         *)
C15_Witness ==
    /\ last.op = "transShape"
    /\ last.args[1] = "THW"
    /\ last.pre.ctype_ = "BTHWC"
    /\ last.pre.transed_
    /\ tensors[1] = last.pre
    /\ Len(tensors[1].shape_) = 5

--------------------------------------------------------------------------
(* reshape and the range of int *)

(* The axis sizes drawn: a negative one, zero, one, the two around the     *)
(* square root of INT_MAX, 2^16 and INT_MAX.                               *)
RsExtents == {0 - 1, 0, 1, 46340, 46341, 65536, INT_MAX}

RsVectors ==
    {<<x>> : x \in RsExtents}
    \cup {<<x, y>> : x \in RsExtents, y \in RsExtents}
    \cup {<<x, y, z>> : x \in RsExtents, y \in RsExtents, z \in RsExtents}

(* reshape(shape): the failed assert ends the program. *)
RsReshape(shp) ==
    /\ last.op = "none"
    /\ LET r == reshapeVec(tensors[1], shp)
       IN  /\ tensors' = [tensors EXCEPT ![1] = r.t]
           /\ last' = Obs("reshape", 1, shp,
                          IF r.fatal THEN "fatal"
                          ELSE IF r.ret THEN "true" ELSE "false")
    /\ UNCHANGED <<nextBuf, relCount, relLog, allocBy, mem>>

ReshapeNext == \E shp \in RsVectors : RsReshape(shp)

SpecReshape == Init /\ [][ReshapeNext]_vars

(* The product of positive integers from entry i on times acc, or -1 when  *)
(* it exceeds INT_MAX.                                                     *)
RECURSIVE PositiveProduct(_, _, _)
PositiveProduct(q, i, acc) ==
    IF i > Len(q) THEN acc
    ELSE IF q[i] > INT_MAX \div acc THEN 0 - 1
    ELSE PositiveProduct(q, i + 1, acc * q[i])

(* The mathematical product of non-negative integers, or -1 when it        *)
(* exceeds INT_MAX.                                                        *)
MathProduct(q) ==
    IF \E i \in 1..Len(q) : q[i] = 0 THEN 0 ELSE PositiveProduct(q, 1, 1)

(* The product of the first k sizes, for some k, exceeds INT_MAX. *)
RunningProductExceeds(shp) ==
    \E k \in 1..Len(shp) :
        /\ \A i \in 1..k : shp[i] >= 0
        /\ MathProduct(SubSeq(shp, 1, k)) < 0

(* C16: reshape is fatal when an axis size is negative or when the running *)
(* product of the axis sizes would exceed INT_MAX; whenever it completes,  *)
(* count_ is the exact product of the stored shape_ entries, with no       *)
(* 32-bit wrap-around, shapes with a zero extent included.                 *)
C16_ReshapeExactCount ==
    (last.op = "reshape") =>
        /\ (\/ \E i \in 1..Len(last.args) : last.args[i] < 0
            \/ RunningProductExceeds(last.args)) => last.ret = "fatal"
        /\ last.ret # "fatal" =>
               /\ tensors[1].shape_ = last.args
               /\ \A i \in 1..Len(tensors[1].shape_) : tensors[1].shape_[i] >= 0
               /\ tensors[1].count_ = MathProduct(tensors[1].shape_)

(* reshape completed on a shape whose first two sizes multiply to just     *)
(* under INT_MAX and whose third is zero.                                  *)
C16_Witness ==
    /\ last.op = "reshape"
    /\ last.ret # "fatal"
    /\ tensors[1].shape_ = <<46340, 46340, 0>>
    /\ tensors[1].count_ = 0

--------------------------------------------------------------------------
(* The offset of a windowed child and the offset of its master *)

(* The logical extents of t. *)
Extents(t) == <<batch(t), head(t), sequence(t), dimension(t)>>

(* The index i of the child c moved by c's window origin and wrapped       *)
(* around the logical extents of the master m.                             *)
WrappedInMaster(m, c, i) ==
    [k \in 1..4 |-> CMod(i[k] + c.shape_offset_[k], Extents(m)[k])]

(* The offset the master itself computes for the wrapped index. *)
MasterOffset(m, c, i) ==
    LET w == WrappedInMaster(m, c, i)
    IN  offset(m, w[1], w[2], w[3], w[4])

(* C17, as the specification states it: the offset of a child bound with a *)
(* window is the offset its master computes for the wrapped index,         *)
(* whatever the child's own tag and head count are.                        *)
C17_AnyChild ==
    (/\ last.op = "offset"
     /\ last.t = 2
     /\ Bound
     /\ IsWindowed(tensors[2])) =>
        last.ret = MasterOffset(tensors[1], tensors[2], last.args)

(* C17, amended: for a child bound with a window that carries its master's *)
(* tag and has recorded the master's logical extents M as shape_master_,   *)
(* offset(b,h,s,d) is the offset the master computes for the index moved   *)
(* by the window origin and wrapped around M.                              *)
C17_SameTagSameExtents ==
    (/\ last.op = "offset"
     /\ last.t = 2
     /\ Bound
     /\ IsWindowed(tensors[2])
     /\ tensors[2].ctype_ = tensors[1].ctype_
     /\ tensors[2].shape_master_ = Extents(tensors[1])) =>
        last.ret = MasterOffset(tensors[1], tensors[2], last.args)

(* offset was called on a windowed child of a BHDS master with an index    *)
(* that the window wraps, and returned an element other than the one the   *)
(* master has at the index unwrapped.                                      *)
C17_Witness ==
    /\ last.op = "offset"
    /\ last.t = 2
    /\ Bound
    /\ IsWindowed(tensors[2])
    /\ tensors[1].ctype_ = "BHDS"
    /\ tensors[2].ctype_ = "BHDS"
    /\ tensors[2].shape_master_ = Extents(tensors[1])
    /\ WrappedInMaster(tensors[1], tensors[2], last.args) # last.args
    /\ \E k \in 1..4 : last.args[k] + tensors[2].shape_offset_[k] >= Extents(tensors[1])[k]
    /\ last.ret = MasterOffset(tensors[1], tensors[2], last.args)
    /\ last.ret > 0

--------------------------------------------------------------------------
(* deepCopyFrom and the layout tags *)

FourAxisTags == {"BSHD", "BHDS", "SBHD"}

(* The step binds tensor 2 to tensor 1, and the case of C18 holds before   *)
(* it: the tags differ, both are 4-axis tags, the child's undiffusion_ is  *)
(* false.                                                                  *)
RetagStep ==
    /\ last'.op = "deepCopyFrom"
    /\ tensors[2].ctype_ # tensors[1].ctype_
    /\ tensors[2].ctype_ \in FourAxisTags
    /\ tensors[1].ctype_ \in FourAxisTags
    /\ ~tensors[2].undiffusion_

(* Afterwards both carry one tag and exactly one of them changed tag: the  *)
(* master if the child's transed_ is true, otherwise the child.            *)
OneAdopts ==
    /\ tensors'[2].ctype_ = tensors'[1].ctype_
    /\ (tensors'[2].ctype_ # tensors[2].ctype_) # (tensors'[1].ctype_ # tensors[1].ctype_)
    /\ IF tensors[2].transed_
       THEN tensors'[1].ctype_ = tensors[2].ctype_
       ELSE tensors'[2].ctype_ = tensors[1].ctype_

(* deepCopyFrom copies the master's shape_: copyshape is true and no       *)
(* shape_offset is given.                                                  *)
CopiesShape == last'.args[1] /\ last'.args[2] = <<>>

(* C18, as the specification states it: the party whose tag changed has    *)
(* afterwards the batch(), head(), sequence() and dimension() it had.      *)
C18_ChangedKeepsExtents ==
    [][RetagStep =>
         /\ OneAdopts
         /\ IF tensors[2].transed_
            THEN Extents(tensors'[1]) = Extents(tensors[1])
            ELSE Extents(tensors'[2]) = Extents(tensors[2])
      ]_vars

(* C18, amended: the master, when it adopts the child's tag, keeps its     *)
(* four extents; the child, when it adopts the master's tag, keeps its     *)
(* four extents if its shape_ is not copied from the master, and otherwise *)
(* has the master's shape_.                                                *)
C18_RetagThenCopyShape ==
    [][RetagStep =>
         /\ OneAdopts
         /\ IF tensors[2].transed_
            THEN Extents(tensors'[1]) = Extents(tensors[1])
            ELSE IF CopiesShape
            THEN tensors'[2].shape_ = tensors'[1].shape_
            ELSE Extents(tensors'[2]) = Extents(tensors[2])
      ]_vars

(* An untransposed BSHD child with an extent above 1 was bound without     *)
(* copyshape to a master with another tag and other extents, adopted the   *)
(* master's tag and has the extents it had.                                *)
C18_Witness ==
    /\ last.op = "deepCopyFrom"
    /\ Bound
    /\ last.args[1] = FALSE
    /\ ~last.pre.transed_
    /\ last.pre.ctype_ = "BSHD"
    /\ tensors[2].ctype_ = tensors[1].ctype_
    /\ tensors[2].ctype_ # "BSHD"
    /\ Extents(tensors[2]) = Extents(last.pre)
    /\ Extents(tensors[2]) # Extents(tensors[1])
    /\ \E k \in 1..4 : Extents(tensors[2])[k] > 1


(* The tensors drawn for the binding of a child to a master of any tag: a  *)
(* 4-axis tensor as reshaped or after one transShape, and a 5-axis tensor  *)
(* as reshaped under BCTHW or after transShape(THW, CHANNLE).              *)
TagKinds == {"none", "SD", "SDu", "BS", "BCTHW", "BTHWC"}

TagShapes == {<<1, 1, MaxExt, 1>>, <<1, MaxExt, 1, 1>>}

TagBuilt(kind, shp) ==
    IF kind \in {"BCTHW", "BTHWC"}
    THEN LET t5 == reshape5([NewTensor EXCEPT !.ctype_ = "BCTHW"],
                            shp[1], shp[2], shp[3], shp[4], 1).t
         IN  IF kind = "BTHWC" THEN transShape(t5, "THW", "CHANNLE", FALSE).t ELSE t5
    ELSE Transposed(reshape4(NewTensor, shp[1], shp[2], shp[3], shp[4]).t, kind)

TagInit ==
    \E mk \in TagKinds, ck \in TagKinds, ms \in TagShapes, cs \in TagShapes :
        /\ tensors = [t \in TensorIds |->
                        IF t = 1
                        THEN [TagBuilt(mk, ms) EXCEPT !.host_ptr_ = 1,
                                                      !.allocated_ = TagBuilt(mk, ms).count_]
                        ELSE IF t = 2 THEN TagBuilt(ck, cs)
                        ELSE NewTensor]
        /\ nextBuf = 2
        /\ relCount = [b \in BufIds |-> 0]
        /\ relLog = {}
        /\ allocBy = [b \in BufIds |-> IF b = 1 THEN 1 ELSE 0]
        /\ mem = [b \in BufIds |->
                    IF b = 1 THEN [i \in 1..TagBuilt(mk, ms).count_ |-> Unwritten]
                    ELSE <<>>]
        /\ last = NoCall

(* tensors[2].deepCopyFrom(tensors[1], copyshape), run to its end. *)
TgBind(copyshape) ==
    /\ last.op = "none"
    /\ LET r == deepCopyFrom(tensors, 2, 1, copyshape, <<>>, 1)
       IN  /\ ~r.fatal
           /\ tensors' = r.ts
           /\ last' = Obs("deepCopyFrom", 2, <<copyshape, <<>>, 1>>, FALSE)
    /\ UNCHANGED <<nextBuf, relCount, relLog, allocBy, mem>>

TagNext == \E copyshape \in BOOLEAN : TgBind(copyshape)

SpecTags == TagInit /\ [][TagNext]_vars

FiveAxisTags == {"BCTHW", "BTHWC"}

(* C19: deepCopyFrom leaves the child's and the master's tag unchanged     *)
(* whenever the child's tag or the master's tag is a 5-axis tag, or the    *)
(* child's undiffusion_ is true, or the two tags are equal.                *)
C19_TagsUntouched ==
    [][(/\ last'.op = "deepCopyFrom"
        /\ \/ tensors[2].ctype_ \in FiveAxisTags
           \/ tensors[1].ctype_ \in FiveAxisTags
           \/ tensors[2].undiffusion_
           \/ tensors[2].ctype_ = tensors[1].ctype_) =>
           /\ tensors'[2].ctype_ = tensors[2].ctype_
           /\ tensors'[1].ctype_ = tensors[1].ctype_
      ]_vars

--------------------------------------------------------------------------
(* deepCopyFrom on a tensor that has children: tensor 1 is the master M,   *)
(* tensor 2 the tensor T, tensors 3 .. MaxKids + 2 the children of T.      *)

RbIds == 1..(MaxKids + 2)

RbKids == 3..(MaxKids + 2)

RbInit ==
    \E ms \in TagShapes :
        LET m0 == reshape4(NewTensor, ms[1], ms[2], ms[3], ms[4]).t
        IN  /\ tensors = [t \in RbIds |->
                            IF t = 1
                            THEN [m0 EXCEPT !.host_ptr_ = 1, !.allocated_ = m0.count_]
                            ELSE NewTensor]
            /\ nextBuf = 2
            /\ relCount = [b \in BufIds |-> 0]
            /\ relLog = {}
            /\ allocBy = [b \in BufIds |-> IF b = 1 THEN 1 ELSE 0]
            /\ mem = [b \in BufIds |->
                        IF b = 1 THEN [i \in 1..m0.count_ |-> Unwritten] ELSE <<>>]
            /\ last = NoCall

(* this->deepCopyFrom(source, copyshape), run to its end. *)
RbDeepCopyFrom(this, source, copyshape) ==
    /\ LET r == deepCopyFrom(tensors, this, source, copyshape, <<>>, 1)
       IN  /\ ~r.fatal
           /\ tensors' = r.ts
           /\ last' = Obs("deepCopyFrom", this, <<source, copyshape>>, FALSE)
    /\ UNCHANGED <<nextBuf, relCount, relLog, allocBy, mem>>

(* A child is bound to T, which is not bound itself yet. *)
RbAdopt(k, copyshape) ==
    /\ tensors[2].master_tensor_ = 0
    /\ Len(tensors[2].child_tensors_) < MaxKids
    /\ RbDeepCopyFrom(k, 2, copyshape)

(* T.deepCopyFrom(M) *)
RbBind(copyshape) ==
    /\ tensors[2].master_tensor_ = 0
    /\ RbDeepCopyFrom(2, 1, copyshape)

RebindNext ==
    \/ \E k \in RbKids, copyshape \in BOOLEAN : RbAdopt(k, copyshape)
    \/ \E copyshape \in BOOLEAN : RbBind(copyshape)

SpecRebind == RbInit /\ [][RebindNext]_vars

(* The tensors in the child list of t. *)
ChildSet(t) == {t.child_tensors_[i] : i \in 1..Len(t.child_tensors_)}

(* C20: after T.deepCopyFrom(M) on a tensor T with n >= 0 registered       *)
(* children, T's own child list is empty, and T and every former child of  *)
(* T has master_tensor_ == M, has M's host_ptr_ and is registered in M's   *)
(* child list.                                                             *)
C20_ChildrenRebound ==
    (last.op = "deepCopyFrom" /\ last.t = 2) =>
        /\ tensors[2].child_tensors_ = <<>>
        /\ \A k \in {2} \cup ChildSet(last.pre) :
               /\ tensors[k].master_tensor_ = 1
               /\ tensors[k].host_ptr_ = tensors[1].host_ptr_
               /\ k \in ChildSet(tensors[1])

--------------------------------------------------------------------------
(* The interleaved aggregation modes: tensors 1 and 2 are constituents     *)
(* with head count H and dimension extent D, tensor 3 is made an aggregate *)
(* over N of them in mode D_HD or HD, and checkDim is called on it with a  *)
(* dimension index below N*H*D.                                            *)

PackedModes == {"D_HD", "HD"}

PackInit ==
    \E H \in 1..MaxExt, D \in 1..MaxExt :
        /\ tensors = [t \in TensorIds |->
                        IF t \in 1..2 THEN reshape4(NewTensor, 1, H, 1, D).t
                        ELSE NewTensor]
        /\ nextBuf = 1
        /\ relCount = [b \in BufIds |-> 0]
        /\ relLog = {}
        /\ allocBy = [b \in BufIds |-> 0]
        /\ mem = [b \in BufIds |-> <<>>]
        /\ last = NoCall

(* The head count, the dimension extent and the number of constituents of  *)
(* the aggregate.                                                          *)
PackH == head(tensors[tensors[3].aggregated_tensors_[1]])

PackD == dimension(tensors[tensors[3].aggregated_tensors_[1]])

PackN == Len(tensors[3].aggregated_tensors_)

PkCheckDim(h, d) ==
    /\ tensors[3].aggregated_
    /\ last.op = "addTensors"
    /\ last' = Obs("checkDim", 3, <<0, h, 0, d>>, checkDim(tensors, 3, 0, h, 0, d, 0))
    /\ UNCHANGED <<tensors, nextBuf, relCount, relLog, allocBy, mem>>

PackNext ==
    \/ \E tsq \in AggLists, dim \in PackedModes : AgAddTensors(tsq, dim)
    \/ /\ tensors[3].aggregated_
       /\ \E h \in 0..1, d \in 0..(PackN * PackH * PackD - 1) : PkCheckDim(h, d)

SpecPack == PackInit /\ [][PackNext]_vars

(* C21: in mode D_HD the index d = (h*N + c)*D + l with 0<=c<N, 0<=l<D     *)
(* routes to constituent c with head h and local dimension l; in mode HD   *)
(* the index d = (c*H + h)*D + l with 0<=c<N, 0<=h<H, 0<=l<D routes to     *)
(* constituent c with head h and local dimension l; the constituent id     *)
(* returned lies in [0, N).                                                *)
C21_UnpacksDimension ==
    (last.op = "checkDim" /\ tensors[3].aggregated_dim_ \in PackedModes) =>
        LET d == last.args[4]
            r == last.ret
        IN  /\ tensors[3].aggregated_dim_ = "D_HD" =>
                   \A h \in 0..PackH, c \in 0..(PackN - 1), l \in 0..(PackD - 1) :
                       d = (h * PackN + c) * PackD + l =>
                           r.id = c /\ r.h = h /\ r.d = l
            /\ tensors[3].aggregated_dim_ = "HD" =>
                   \A c \in 0..(PackN - 1), h \in 0..(PackH - 1), l \in 0..(PackD - 1) :
                       d = (c * PackH + h) * PackD + l =>
                           r.id = c /\ r.h = h /\ r.d = l
            /\ 0 <= r.id /\ r.id < PackN

(* checkDim was called in mode D_HD on an aggregate over three             *)
(* constituents with two heads of two elements, with another head index    *)
(* than the one packed in d, and returned the last constituent, the last   *)
(* head and the last local dimension.                                      *)
C21_Witness ==
    /\ last.op = "checkDim"
    /\ tensors[3].aggregated_dim_ = "D_HD"
    /\ PackN = 3 /\ PackH > 1 /\ PackD > 1
    /\ last.args[4] = PackN * PackH * PackD - 1
    /\ last.args[2] = 0
    /\ last.ret.id = PackN - 1
    /\ last.ret.h = PackH - 1
    /\ last.ret.d = PackD - 1

--------------------------------------------------------------------------
(* Child lists and master back-references; buffers without an owner *)

(* The number of entries of t's child list that are c. *)
TimesListed(t, c) ==
    Cardinality({i \in 1..Len(t.child_tensors_) : t.child_tensors_[i] = c})

(* C22: after any sequence of deepCopyFrom calls, binding the same child   *)
(* twice and rebinding a child to another master included, a tensor C is   *)
(* in tensor M's child_tensors_ exactly when C's master_tensor_ is M, and  *)
(* it is there at most once.                                               *)
C22_ListsMatchBackReferences ==
    \A m \in TensorIds, c \in TensorIds :
        (tensors[m].alive /\ tensors[c].alive) =>
            /\ (TimesListed(tensors[m], c) > 0) = (tensors[c].master_tensor_ = m)
            /\ TimesListed(tensors[m], c) <= 1

(* C23: every buffer obtained from the backend and not released is the     *)
(* host_ptr_ of a live tensor that has no master and is not aggregated.    *)
C23_EveryBufferOwned ==
    \A b \in BufIds :
        (allocBy[b] # 0 /\ relCount[b] = 0) =>
            \E t \in TensorIds :
                /\ tensors[t].alive
                /\ tensors[t].host_ptr_ = b
                /\ tensors[t].master_tensor_ = 0
                /\ ~tensors[t].aggregated_

====
